---- MODULE Spec2Model ----
(***************************************************************************)
(* Model of the useGeoTracker hook (src/app/hooks/useGeoTracker.tsx).      *)
(*                                                                         *)
(* Units and representation                                                *)
(*   - performance.now() and pos.timestamp are integers in milliseconds.   *)
(*   - movingTimeRef holds seconds in the code; the model stores the same  *)
(*     quantity in milliseconds (tsec > 2 is movingTimeRef > 2000).        *)
(*   - Fixes lie on one meridian; a position is its distance in metres     *)
(*     along that meridian, so haversine(p, q) = |p - q|.                  *)
(*   - Speeds are exact rationals <<num, den>> in m/s, kept normalised.    *)
(*   - A nullable value is a sequence: <<>> is null, <<v>> is v.           *)
(*   - React state (useState) is modelled by the value the queued updates  *)
(*     produce; effects run in the separate Commit step, as React runs     *)
(*     them after the render that follows a state change.                  *)
(*   - The options (opts) and whether the browser has geolocation are      *)
(*     fixed when the hook is constructed; they are variables no action    *)
(*     changes.                                                            *)
(*   - src/unnamed/part_001 is a second revision of the hook (display     *)
(*     values republished by the frame loop); variant says which revision  *)
(*     a behaviour is of, and the P1 definitions model what differs.       *)
(*   - JS numbers are IEEE-754 binary64.  The state machine computes in    *)
(*     exact rationals, which the code follows up to rounding; what turns  *)
(*     on rounding is checked on EmaFloat, the smoothing step evaluated in *)
(*     binary64 bit for bit (SpecEma).                                     *)
(***************************************************************************)
EXTENDS Integers, Sequences, FiniteSets, TLC

VARIABLES
    isActive,       \* useState(false)                       line 20
    error,          \* useState<string | null>(null)         line 21
    distanceM,      \* useState(0)                           line 24
    speedMs,        \* useState<number | null>(null)         line 25
    avgSpeedMs,     \* useState<number | null>(null)         line 26
    lastFix,        \* useState<GeolocationPosition | null>  line 28
    watchIdRef,     \* useRef<number | null>(null)           line 30
    prevRef,        \* useRef<Fix | null>(null)              line 31
    startedAtRef,   \* useRef<number | null>(null)           line 32
    movingTimeRef,  \* useRef<number>(0)                     line 33
    lastTickRef,    \* useRef<number | null>(null)           line 34
    distanceRef,    \* useRef<number>(0)                     line 35
    effActive,      \* isActive as seen by the effects that ran last (closure value)
    now,            \* performance.now(), ms
    firstFrame,     \* the frame requested by the tick effect itself (line 73) is pending
    loops,          \* frames requested from inside r (line 70) that are pending
    watches,        \* live watchPosition subscriptions: [id, isActive (closure)]
    last,           \* history: the handler that ran last, its outcome and input
    lastCall,       \* history: the last of start / pause / reset that was called
    opts,           \* GeoTrackerOptions after defaults                 lines 14-18
    supported,      \* "geolocation" in navigator                       line 79
    variant,        \* "main": useGeoTracker.tsx, "part_001": src/unnamed/part_001
    displayDistanceM,     \* part_001 line 25
    displaySpeedKmh,      \* part_001 line 26
    displayAvgSpeedKmh,   \* part_001 line 27
    speedMsRef,           \* part_001 line 39
    lastUpdateTimeRef,    \* part_001 line 40
    lastSpeedUpdateRef,   \* part_001 line 43
    traced,         \* history is kept: fixed at construction
    history,        \* history since the last reset, when traced: the fixes
                    \* accepted, and how many of them preceded the last tick
    mounted,        \* the component that uses the hook is mounted
    errorTimers     \* part_001: setTimeout callbacks of lines 107 and 134 pending

\* src/app/components/AccelerometerScreen.tsx and src/app/hooks/useAudioMotion.tsx
VARIABLES
    audioEnabled,         \* useState(false)            AccelerometerScreen.tsx line 20
    selectedInstrument,   \* useState('sine')           AccelerometerScreen.tsx line 21
    data,                 \* useAccelerometer's data is not null (line 19)
    isPlaying,            \* useState(false)            useAudioMotion.tsx line 37
    audioContextStarted,  \* useState(false)            useAudioMotion.tsx line 38
    startsPending,        \* Tone.start() promises awaited at line 179
    switchTimers,         \* setTimeout callbacks of line 91 pending, oldest first
    sounding,             \* the current synth was attacked and not released
    audioLast,            \* history: the audio handler that ran last
    switched              \* history: an instrument was chosen while isPlaying

trackerVars == <<isActive, error, distanceM, speedMs, avgSpeedMs, lastFix, watchIdRef,
                 prevRef, startedAtRef, movingTimeRef, lastTickRef, distanceRef,
                 effActive, now, firstFrame, loops, watches, last, lastCall,
                 opts, supported, variant, displayDistanceM, displaySpeedKmh,
                 displayAvgSpeedKmh, speedMsRef, lastUpdateTimeRef, lastSpeedUpdateRef,
                 traced, history, mounted, errorTimers>>

\* the state of the accelerometer screen and its audio hook
audioVars == <<audioEnabled, selectedInstrument, data, isPlaying,
               audioContextStarted, startsPending, switchTimers, sounding,
               audioLast, switched>>

vars == <<trackerVars, mounted, errorTimers, audioVars>>

\* fixed at construction
env == <<opts, supported, variant, traced>>

\* the state only part_001 has
p1vars == <<displayDistanceM, displaySpeedKmh, displayAvgSpeedKmh, speedMsRef,
            lastUpdateTimeRef, lastSpeedUpdateRef>>

(***************************************************************************)
(* Nullable values and exact rationals                                     *)
(***************************************************************************)
None == <<>>
Some(v) == <<v>>

Abs(x) == IF x < 0 THEN -x ELSE x

RECURSIVE GCD(_, _)
GCD(a, b) == IF b = 0 THEN a ELSE GCD(b, a % b)

Rat(n, d) ==
    LET g == GCD(Abs(n), Abs(d))
        sgn == IF d < 0 THEN -1 ELSE 1
    IN  <<(sgn * n) \div g, (sgn * d) \div g>>

RatAdd(p, q) == Rat(p[1] * q[2] + q[1] * p[2], p[2] * q[2])
RatSub(p, q) == Rat(p[1] * q[2] - q[1] * p[2], p[2] * q[2])
RatMul(p, q) == Rat(p[1] * q[1], p[2] * q[2])

(***************************************************************************)
(* Options (lines 14-18) and the bounds of the model                       *)
(***************************************************************************)
minAccuracyM == 60
minIntervalMs == 500
smoothFactor == <<1, 4>>

\* opts with every option left to its default
DefaultOpts ==
    [minAccuracyM |-> minAccuracyM, minIntervalMs |-> minIntervalMs,
     smoothFactor |-> smoothFactor]

AvgThresholdMs == 2000
GlitchDistanceM == 100
GlitchWindowMs == 1000

MaxSteps == 3
MaxLoops == 1
FrameGapsMs == {1500}

\* part_001: the options' defaults (lines 15-17), the warm-up of the average
\* (line 90), the age after which a speed is dropped (line 190), km/h per m/s
\* (lines 82 and 92), Date.now() at the time performance.now() is 0 (line 150)
DefaultOptsP1 ==
    [minAccuracyM |-> 60, minIntervalMs |-> 100, smoothFactor |-> <<3, 10>>]
AvgThresholdMsP1 == 500
SpeedMaxAgeMs == 2000
KmhPerMs == <<18, 5>>
EpochMs == 100000
FrameGapsMsP1 == {400}

(***************************************************************************)
(* Inputs: the fixes the sensor may deliver and the sensor error codes     *)
(***************************************************************************)
FixTimes == {0, 300, 600, 1600}
FixLats == {0, 100, 250}

Pos(t, lat, speed, acc) ==
    [timestamp |-> t, latitude |-> lat, speed |-> speed, accuracy |-> acc]

\* the fixes of the fix-processing specification
Positions ==
    {Pos(t, lat, None, Some(60)) : t \in FixTimes, lat \in FixLats}
    \cup {Pos(t, 0, Some(5), Some(60)) : t \in {0, 600}}
    \cup {Pos(1600, 250, None, Some(61)), Pos(600, 100, Some(-1), None)}

\* the fixes of the lifecycle specification: a first fix, one too soon after it,
\* one 100 m further after 1.6 s, and one of bad accuracy
FewPositions ==
    {Pos(0, 0, None, Some(60)), Pos(300, 100, Some(5), Some(60)),
     Pos(1600, 100, None, Some(60)), Pos(1600, 250, None, Some(61))}

ErrorCodes == {0, 1, 2, 3}

\* the fixes of the speed specification: native speed absent, negative or 5 m/s,
\* at 0, 0.6 s and 2 s, at 0 m and 10 m
SpeedPositions ==
    {Pos(t, lat, sp, Some(60)) :
        t \in {0, 600, 2000}, lat \in {0, 10}, sp \in {None, Some(-1), Some(5)}}

(***************************************************************************)
(* Pure parts of onSuccess (lines 110-153)                                 *)
(***************************************************************************)
\* a signed difference instead of a distance
haversine_Signed(a, b) == a - b

\* haversine(a, b) for two points of one meridian, metres (line 132)
haversine(a, b) == Abs(a - b)

\* the threshold comparison left out
AccuracyRejected_ThresholdDropped(pos) == pos.accuracy = None

\* accuracy ?? 0 instead of accuracy ?? Infinity
AccuracyRejected_NullAsZero(pos) ==
    IF pos.accuracy = None THEN 0 > opts.minAccuracyM
    ELSE pos.accuracy[1] > opts.minAccuracyM

\* line 119: (accuracy ?? Infinity) > minAccuracyM  => return
AccuracyRejected(pos) ==
    IF pos.accuracy = None THEN TRUE ELSE pos.accuracy[1] > opts.minAccuracyM

\* line 125: (typeof speed === "number" && speed >= 0) ? speed : null
NativeSpeed_AcceptsNegative(pos) ==
    IF pos.speed # None THEN Some(Rat(pos.speed[1], 1)) ELSE None

\* line 125: typeof speed === "number" && speed >= 0 ? speed : null
NativeSpeed(pos) ==
    IF pos.speed # None /\ pos.speed[1] >= 0 THEN Some(Rat(pos.speed[1], 1)) ELSE None

\* line 128: now - prev.t, in ms (dt of the code is this over 1000)
DtMs(pos, prev) == pos.timestamp - prev.t

\* only the order of the timestamps checked, not the interval
IntervalRejected_OrderOnly(pos, prev) == pos.timestamp - prev.t < 0

\* the interval taken as an absolute difference
IntervalRejected_Absolute(pos, prev) ==
    Abs(pos.timestamp - prev.t) < opts.minIntervalMs

\* line 129: dt * 1000 < minIntervalMs  => return
IntervalRejected(pos, prev) == DtMs(pos, prev) < opts.minIntervalMs

\* the distance from the equator, not from the fix before
SegmentDistance_FromOrigin(pos, prev) == haversine(0, pos.latitude)

\* line 132
SegmentDistance(pos, prev) == haversine(prev.lat, pos.latitude)

\* the dt condition left out
\* dt < 1 in the place of dt <= 1
Unrealistic_StrictWindow(d, dtMs) == d > GlitchDistanceM /\ dtMs < GlitchWindowMs

Unrealistic_DistanceOnly(d, dtMs) == d > GlitchDistanceM

\* line 138: d > 100 && dt <= 1
Unrealistic(d, dtMs) == d > GlitchDistanceM /\ dtMs <= GlitchWindowMs

\* lines 125 and 135: the speed fed to the smoothing, null when there is none
InstantSpeed(pos, prevOpt) ==
    LET s == NativeSpeed(pos) IN
    IF prevOpt = None THEN s
    ELSE LET dtMs == DtMs(pos, prevOpt[1])
             d == SegmentDistance(pos, prevOpt[1])
         IN  IF s = None /\ dtMs > 0 THEN Some(Rat(d * 1000, dtMs)) ELSE s

\* line 146: s != null && Number.isFinite(s); a quotient is finite when its
\* divisor is not 0
Smoothable(s) == s # None /\ s[1][2] # 0

\* a step of 1 + smoothFactor instead of smoothFactor
Ema_Overshoots(v, s) ==
    IF v = None THEN Some(s)
    ELSE Some(RatAdd(v[1], RatMul(RatSub(s, v[1]),
                                  RatAdd(<<1, 1>>, opts.smoothFactor))))

\* line 147: v == null ? s : v + (s - v) * smoothFactor
Ema(v, s) ==
    IF v = None THEN Some(s)
    ELSE Some(RatAdd(v[1], RatMul(RatSub(s, v[1]), opts.smoothFactor)))

(***************************************************************************)
(* The smoothing of line 147 as the engine computes it: in IEEE-754        *)
(* binary64, every operation rounded to nearest, ties to even.  A number   *)
(* is a sign and a magnitude; the magnitude is a sequence of NumBits bits, *)
(* least significant first, bit i weighing 2^(i - 1 - FracBits).  The      *)
(* speeds stay far from the subnormal and the overflow range.              *)
(***************************************************************************)
SignificandBits == 53
FracBits == 60
NumBits == 68

BitsZero == [i \in 1..NumBits |-> 0]

\* the bits of n * 2^sh, for 0 <= n < 2^30
BitsOfInt(n, sh) ==
    [i \in 1..NumBits |->
        IF i > sh /\ i - sh <= 30 THEN (n \div 2^(i - sh - 1)) % 2 ELSE 0]

\* a + b: bit i receives a carry when a lower bit generates one and the bits
\* between pass it on
BitsAdd(a, b) ==
    [i \in 1..NumBits |->
        LET carry == \E j \in 1..(i - 1) :
                        /\ a[j] + b[j] = 2
                        /\ \A k \in (j + 1)..(i - 1) : a[k] + b[k] >= 1
        IN  (a[i] + b[i] + (IF carry THEN 1 ELSE 0)) % 2]

\* a - b, for a >= b: bit i is borrowed from when a lower bit needs a borrow
\* and the bits between pass it on
BitsSub(a, b) ==
    [i \in 1..NumBits |->
        LET borrow == \E j \in 1..(i - 1) :
                         /\ a[j] < b[j]
                         /\ \A k \in (j + 1)..(i - 1) : a[k] <= b[k]
        IN  (2 + a[i] - b[i] - (IF borrow THEN 1 ELSE 0)) % 2]

BitsLess(a, b) ==
    \E i \in 1..NumBits : a[i] < b[i] /\ \A j \in (i + 1)..NumBits : a[j] = b[j]

\* the position of the leading 1, or 0
TopBit(a) ==
    LET ones == {i \in 1..NumBits : a[i] = 1}
    IN  IF ones = {} THEN 0 ELSE CHOOSE i \in ones : \A j \in ones : j <= i

\* 2^(i - 1 - FracBits)
BitsUnit(i) == [j \in 1..NumBits |-> IF j = i THEN 1 ELSE 0]

\* round a magnitude to 53 significant bits, to nearest, ties to even
RoundBits(a) ==
    LET t == TopBit(a)
        k == t - SignificandBits
    IN  IF k <= 0 THEN a
        ELSE LET kept == [i \in 1..NumBits |-> IF i <= k THEN 0 ELSE a[i]]
                 sticky == \E i \in 1..(k - 1) : a[i] = 1
                 up == a[k] = 1 /\ (sticky \/ a[k + 1] = 1)
             IN  IF up THEN BitsAdd(kept, BitsUnit(k + 1)) ELSE kept

\* the double (hi * 2^27 + lo) * 2^(sh - FracBits), hi and lo below 2^27
Double(hi, lo, sh) ==
    [neg |-> FALSE, mag |-> BitsAdd(BitsOfInt(hi, sh + 27), BitsOfInt(lo, sh))]

DoubleNeg(x) == [neg |-> ~x.neg /\ x.mag # BitsZero, mag |-> x.mag]

\* a + b, not rounded
SignedSum(a, b) ==
    IF a.neg = b.neg THEN [neg |-> a.neg, mag |-> BitsAdd(a.mag, b.mag)]
    ELSE IF BitsLess(a.mag, b.mag)
         THEN [neg |-> b.neg, mag |-> BitsSub(b.mag, a.mag)]
    ELSE [neg |-> a.neg /\ a.mag # b.mag, mag |-> BitsSub(a.mag, b.mag)]

DoubleAdd(a, b) ==
    LET x == SignedSum(a, b) IN [neg |-> x.neg, mag |-> RoundBits(x.mag)]

DoubleSub(a, b) == DoubleAdd(a, DoubleNeg(b))

\* x * f for a factor f = 1 / 2^j: the exponent drops by j, no bit is lost
RECURSIVE DoubleScale(_, _)
DoubleScale(x, f) ==
    IF f[2] = 1 THEN x
    ELSE DoubleScale([neg |-> x.neg,
                      mag |-> [i \in 1..NumBits |->
                                 IF i < NumBits THEN x.mag[i + 1] ELSE 0]],
                     <<f[1], f[2] \div 2>>)

EmaFloat_WrongSign(v, s) ==
    IF v = None THEN Some(s)
    ELSE Some(DoubleSub(v[1], DoubleScale(DoubleSub(s, v[1]), opts.smoothFactor)))

EmaFloat_WeightsSwapped(v, s) ==
    IF v = None THEN Some(s)
    ELSE Some(DoubleAdd(s, DoubleScale(DoubleSub(v[1], s), opts.smoothFactor)))

\* line 147: v == null ? s : v + (s - v) * smoothFactor
EmaFloat(v, s) ==
    IF v = None THEN Some(s)
    ELSE Some(DoubleAdd(v[1], DoubleScale(DoubleSub(s, v[1]), opts.smoothFactor)))

\* |a - b|, exactly
Distance(a, b) == SignedSum(a, DoubleNeg(b)).mag

\* the unit in the last place of x, times 2^j
Ulps(x, j) == BitsUnit(TopBit(x.mag) - SignificandBits + 1 + j)

Falsy_Never(ref) == FALSE

\* line 123: !startedAtRef.current  (null and 0 are both falsy)
Falsy(ref) == ref = None \/ ref[1] = 0

\* the branch of onSuccess a fix takes, given the closure's isActive
Outcome(pos, active, prevOpt) ==
    IF ~active THEN "inactive"
    ELSE IF AccuracyRejected(pos) THEN "accuracy"
    ELSE IF prevOpt = None THEN "first"
    ELSE IF IntervalRejected(pos, prevOpt[1]) THEN "interval"
    ELSE IF Unrealistic(SegmentDistance(pos, prevOpt[1]), DtMs(pos, prevOpt[1]))
         THEN "glitch"
    ELSE "segment"

\* line 152: the record stored in prevRef
FixOf(pos) ==
    [t |-> pos.timestamp, lat |-> pos.latitude,
     acc |-> IF pos.accuracy = None THEN 9999 ELSE pos.accuracy[1]]

\* lines 156-165: the message onError publishes
ErrorMessage(code) ==
    CASE code = 1 -> "permission denied"
      [] code = 2 -> "position unavailable"
      [] code = 3 -> "timeout"
      [] OTHER -> "message"

\* lines 79-82 and 105-108
UnsupportedMessage == "Geolocation is not supported by this browser."

LastKnownFix_OnlyAccepted(pos, out, old) ==
    IF out \in {"first", "glitch", "segment"} THEN Some(pos) ELSE old

NoHistory == [accepted |-> <<>>, ticked |-> None]

\* history: the baseline an accepted fix leaves (line 152), appended when traced
Trace(h, out, pos) ==
    IF traced /\ out \in {"first", "glitch", "segment"}
    THEN [h EXCEPT !.accepted = Append(@, FixOf(pos))] ELSE h

\* history: a tick (lines 56-71) ran after the fixes accepted so far
TraceTick(h) ==
    IF traced THEN [h EXCEPT !.ticked = Some(Len(h.accepted))] ELSE h

\* line 111: setLastFix(pos), before any gate
LastKnownFix(pos, out, old) == Some(pos)

ErrorAfterFix_ReportsRejection(out, old) ==
    IF out \in {"accuracy", "interval"} THEN Some("fix rejected") ELSE None

\* without line 112
ErrorAfterFix_KeepsError(out, old) == old

\* line 112: setError(null), before any gate
ErrorAfterFix(out, old) == None

(***************************************************************************)
(* The audio toggle of the accelerometer screen                            *)
(* (src/app/components/AccelerometerScreen.tsx, src/app/hooks/             *)
(* useAudioMotion.tsx).  A handler runs with the values of the render it   *)
(* was created in and is modelled together with the render and the effects *)
(* its state updates cause.                                                *)
(***************************************************************************)
\* Tone.start() promises that may be awaited at once
MaxPending == 2

\* instrument switches whose 100 ms timer may be pending at once
MaxTimers == 1

\* AccelerometerScreen.tsx lines 6-16
Instruments == {"sine", "square", "sawtooth", "triangle", "fm", "am", "mono",
                "duo", "pluck"}

\* the enabled option handed to useAudioMotion (AccelerometerScreen.tsx line 23)
Enabled(en, d) == en /\ d

\* The synth after a render (useAudioMotion.tsx lines 135-208): the sound
\* effect (deps line 208) attacks the synth when enabled and started and
\* releases it otherwise; when only the instrument changed, the initialise
\* effect (deps line 172) disposes the synth and creates one that is never
\* attacked; released: stop() released the synth before the render.
SoundAfter(en, st, ins, released) ==
    IF en # Enabled(audioEnabled, data) \/ st # audioContextStarted
    THEN en /\ st
    ELSE IF ins # selectedInstrument \/ released THEN FALSE
    ELSE sounding

InitAudioState ==
    /\ audioEnabled = FALSE
    /\ selectedInstrument = "sine"
    /\ data = FALSE
    /\ isPlaying = FALSE
    /\ audioContextStarted = FALSE
    /\ startsPending = 0
    /\ switchTimers = <<>>
    /\ sounding = FALSE
    /\ audioLast = "init"
    /\ switched = FALSE

\* handleToggleAudio (AccelerometerScreen.tsx lines 30-40), with startAudio up
\* to its await (useAudioMotion.tsx lines 175-179) and stop (lines 275-280)
handleToggleAudio ==
    /\ audioLast' = "toggle"
    /\ IF ~audioContextStarted
       THEN /\ startsPending < MaxPending
            /\ startsPending' = startsPending + 1
            /\ audioEnabled' = TRUE
            /\ isPlaying' = isPlaying
            /\ sounding' = SoundAfter(Enabled(TRUE, data), audioContextStarted,
                                      selectedInstrument, FALSE)
       ELSE IF isPlaying
       THEN /\ isPlaying' = FALSE
            /\ audioEnabled' = FALSE
            /\ sounding' = SoundAfter(FALSE, audioContextStarted,
                                      selectedInstrument, TRUE)
            /\ UNCHANGED startsPending
       ELSE /\ audioEnabled' = TRUE
            /\ sounding' = SoundAfter(Enabled(TRUE, data), audioContextStarted,
                                      selectedInstrument, FALSE)
            /\ UNCHANGED <<isPlaying, startsPending>>
    /\ UNCHANGED <<selectedInstrument, data, audioContextStarted, switchTimers,
                   switched, trackerVars>>

\* startAudio after Tone.start() resolved (useAudioMotion.tsx lines 180-181)
StartResolved ==
    /\ startsPending > 0
    /\ startsPending' = startsPending - 1
    /\ audioContextStarted' = TRUE
    /\ isPlaying' = TRUE
    /\ sounding' = SoundAfter(Enabled(audioEnabled, data), TRUE,
                              selectedInstrument, FALSE)
    /\ audioLast' = "resolved"
    /\ UNCHANGED <<audioEnabled, selectedInstrument, data, switchTimers,
                   switched, trackerVars>>

\* startAudio after Tone.start() rejected (useAudioMotion.tsx lines 182-184)
StartRejected ==
    /\ startsPending > 0
    /\ startsPending' = startsPending - 1
    /\ audioLast' = "rejected"
    /\ UNCHANGED <<audioEnabled, selectedInstrument, data, isPlaying,
                   audioContextStarted, switchTimers, sounding, switched,
                   trackerVars>>

\* the onClick of an instrument button (AccelerometerScreen.tsx lines 87-98)
selectInstrument(inst) ==
    /\ audioLast' = "select"
    /\ IF isPlaying
       THEN /\ Len(switchTimers) < MaxTimers
            /\ isPlaying' = FALSE
            /\ audioEnabled' = FALSE
            /\ switchTimers' = Append(switchTimers, inst)
            /\ switched' = TRUE
            /\ sounding' = SoundAfter(FALSE, audioContextStarted,
                                      selectedInstrument, TRUE)
            /\ UNCHANGED selectedInstrument
       ELSE /\ selectedInstrument' = inst
            /\ sounding' = SoundAfter(Enabled(audioEnabled, data),
                                      audioContextStarted, inst, FALSE)
            /\ UNCHANGED <<isPlaying, audioEnabled, switchTimers, switched>>
    /\ UNCHANGED <<data, audioContextStarted, startsPending, trackerVars>>

SelectInstrument == \E inst \in Instruments : selectInstrument(inst)

\* the timer of an instrument switch fires (AccelerometerScreen.tsx lines 91-94)
SwitchTimer ==
    /\ switchTimers # <<>>
    /\ selectedInstrument' = Head(switchTimers)
    /\ audioEnabled' = TRUE
    /\ switchTimers' = Tail(switchTimers)
    /\ sounding' = SoundAfter(Enabled(TRUE, data), audioContextStarted,
                              Head(switchTimers), FALSE)
    /\ audioLast' = "timer"
    /\ UNCHANGED <<data, isPlaying, audioContextStarted, startsPending, switched,
                   trackerVars>>

\* a sensor reading publishes a sample (useAccelerometer.tsx line 55)
Motion ==
    /\ data' = TRUE
    /\ sounding' = SoundAfter(Enabled(audioEnabled, TRUE), audioContextStarted,
                              selectedInstrument, FALSE)
    /\ audioLast' = "motion"
    /\ UNCHANGED <<audioEnabled, selectedInstrument, isPlaying,
                   audioContextStarted, startsPending, switchTimers, switched,
                   trackerVars>>

\* the audio toggle and the instrument buttons are rendered
\* (AccelerometerScreen.tsx line 67)
ControlsRendered == data

NextAudio ==
    \/ (ControlsRendered /\ handleToggleAudio)
    \/ StartResolved
    \/ StartRejected
    \/ (ControlsRendered /\ SelectInstrument)
    \/ SwitchTimer
    \/ Motion

\* a useState setter called with next while the state is old: React drops the
\* update of a component that is unmounted
SetState(old, next) == IF mounted THEN next ELSE old

(***************************************************************************)
(* Initial state: the hook after its first render, effects run, inactive   *)
(***************************************************************************)
InitState(o, v, tr) ==
    /\ opts = o
    /\ traced = tr
    /\ history = NoHistory
    /\ variant = v
    /\ supported \in BOOLEAN
    /\ displayDistanceM = 0
    /\ displaySpeedKmh = None
    /\ displayAvgSpeedKmh = None
    /\ speedMsRef = None
    /\ lastUpdateTimeRef = 0
    /\ lastSpeedUpdateRef = 0
    /\ isActive = FALSE
    /\ error = IF supported \/ v = "part_001" THEN None        \* lines 78-81
              ELSE Some(UnsupportedMessage)
    /\ errorTimers = IF ~supported /\ v = "part_001"        \* part_001 lines
                    THEN 2 ELSE 0                          \* 107 and 134
    /\ mounted = TRUE
    /\ distanceM = 0
    /\ speedMs = None
    /\ avgSpeedMs = None
    /\ lastFix = None
    /\ watchIdRef = None
    /\ prevRef = None
    /\ startedAtRef = None
    /\ movingTimeRef = 0
    /\ lastTickRef = None
    /\ distanceRef = 0
    /\ effActive = FALSE
    /\ now = 0
    /\ firstFrame = FALSE
    /\ loops = 0
    /\ watches = {}
    /\ last = [op |-> "init", out |-> "none", arg |-> None]
    /\ lastCall = "none"
    /\ InitAudioState

InitWith(o, v) == InitState(o, v, FALSE)

Init == InitWith(DefaultOpts, "main")

(***************************************************************************)
(* start / pause / reset (lines 38-51)                                     *)
(***************************************************************************)
start ==
    /\ isActive' = TRUE
    /\ last' = [op |-> "start", out |-> "none", arg |-> None]
    /\ lastCall' = "start"
    /\ UNCHANGED <<error, distanceM, speedMs, avgSpeedMs, lastFix, watchIdRef,
                   prevRef, startedAtRef, movingTimeRef, lastTickRef, distanceRef,
                   effActive, now, firstFrame, loops, watches, env, p1vars,
                   history, mounted, errorTimers, audioVars>>

pause ==
    /\ isActive' = FALSE
    /\ last' = [op |-> "pause", out |-> "none", arg |-> None]
    /\ lastCall' = "pause"
    /\ UNCHANGED <<error, distanceM, speedMs, avgSpeedMs, lastFix, watchIdRef,
                   prevRef, startedAtRef, movingTimeRef, lastTickRef, distanceRef,
                   effActive, now, firstFrame, loops, watches, env, p1vars,
                   history, mounted, errorTimers, audioVars>>

\* reset without line 49 (movingTimeRef.current = 0)
reset_KeepsMovingTime ==
    /\ isActive' = FALSE
    /\ distanceM' = 0
    /\ distanceRef' = 0
    /\ speedMs' = None
    /\ avgSpeedMs' = None
    /\ lastFix' = None
    /\ prevRef' = None
    /\ startedAtRef' = None
    /\ lastTickRef' = None
    /\ last' = [op |-> "reset", out |-> "none", arg |-> None]
    /\ lastCall' = "reset"
    /\ history' = NoHistory
    /\ UNCHANGED <<mounted, errorTimers, audioVars>>
    /\ UNCHANGED <<error, watchIdRef, movingTimeRef, effActive, now, firstFrame,
                   loops, watches, env, p1vars>>

\* reset without line 47 (prevRef.current = null)
reset_KeepsBaseline ==
    /\ isActive' = FALSE
    /\ distanceM' = 0
    /\ distanceRef' = 0
    /\ speedMs' = None
    /\ avgSpeedMs' = None
    /\ lastFix' = None
    /\ startedAtRef' = None
    /\ movingTimeRef' = 0
    /\ lastTickRef' = None
    /\ last' = [op |-> "reset", out |-> "none", arg |-> None]
    /\ lastCall' = "reset"
    /\ history' = NoHistory
    /\ UNCHANGED <<mounted, errorTimers, audioVars>>
    /\ UNCHANGED <<error, watchIdRef, prevRef, effActive, now, firstFrame, loops,
                   watches, env, p1vars>>

reset ==
    /\ isActive' = SetState(isActive, FALSE)
    /\ distanceM' = SetState(distanceM, 0)
    /\ distanceRef' = 0
    /\ speedMs' = SetState(speedMs, None)
    /\ avgSpeedMs' = SetState(avgSpeedMs, None)
    /\ lastFix' = SetState(lastFix, None)
    /\ prevRef' = None
    /\ startedAtRef' = None
    /\ movingTimeRef' = 0
    /\ lastTickRef' = None
    /\ last' = [op |-> "reset", out |-> "none", arg |-> None]
    /\ lastCall' = "reset"
    /\ history' = NoHistory
    /\ UNCHANGED <<mounted, errorTimers, audioVars>>
    /\ UNCHANGED <<error, watchIdRef, effActive, now, firstFrame, loops, watches,
                   env, p1vars>>

(***************************************************************************)
(* The two effects keyed on isActive (lines 54-75 and 104-191), run by     *)
(* React after the render that follows a change of isActive: cleanup of    *)
(* the previous run, then setup with the new value.                        *)
(***************************************************************************)
\* line 74: cancelAnimationFrame(id), id being the frame requested at line 73
TickCleanup(ff) == FALSE

\* part_001: 'not supported' callbacks that may be pending at once
MaxErrorTimers == 3

\* lines 185-190 then 171-183: the watcher effect
FreshWatchId(ws) == CHOOSE n \in 1..(Cardinality(ws) + 1) : \A w \in ws : w.id # n

Commit ==
    /\ isActive # effActive
    /\ effActive' = isActive
    /\ IF isActive
       THEN /\ lastTickRef' = Some(now)                       \* line 72
            /\ firstFrame' = TRUE                             \* line 73
       ELSE /\ lastTickRef' = lastTickRef
            /\ firstFrame' = TickCleanup(firstFrame)          \* line 74
    /\ LET cleared == IF watchIdRef = None THEN watches
                      ELSE {w \in watches : w.id # watchIdRef[1]}
       IN  IF ~supported
           THEN /\ IF variant = "part_001"
                   THEN /\ errorTimers < MaxErrorTimers
                        /\ errorTimers' = errorTimers + 1     \* part_001 line 134
                        /\ error' = error
                   ELSE /\ error' = Some(UnsupportedMessage)  \* lines 105-108
                        /\ errorTimers' = errorTimers
                /\ UNCHANGED <<watches, watchIdRef>>
           ELSE /\ error' = error
                /\ errorTimers' = errorTimers
                /\ IF isActive
                   THEN LET id == FreshWatchId(cleared) IN
                        /\ watches' = cleared \cup {[id |-> id, isActive |-> TRUE]}
                        /\ watchIdRef' = Some(id)
                   ELSE /\ watches' = cleared
                        /\ watchIdRef' = None
    /\ last' = [op |-> "commit", out |-> "none", arg |-> None]
    /\ UNCHANGED <<isActive, distanceM, speedMs, avgSpeedMs, lastFix,
                   prevRef, startedAtRef, movingTimeRef, distanceRef, now, loops,
                   lastCall, env, p1vars, history, mounted, audioVars>>

(***************************************************************************)
(* The animation-frame callback r (lines 56-71)                            *)
(***************************************************************************)
\* the frame gap never added
Accumulate_Stuck(moving, lastTick, t) == moving

\* lines 58-60
Accumulate(moving, lastTick, t) ==
    IF lastTick # None THEN moving + (t - lastTick[1]) ELSE moving

AverageAfterTick_NoWarmUp(avg, tms, dist) ==
    IF tms > 0 /\ dist >= 0 THEN Some(Rat(dist * 1000, tms)) ELSE avg

\* distance times moving time
AverageAfterTick_TimesElapsed(avg, tms, dist) ==
    IF tms > AvgThresholdMs /\ dist >= 0 THEN Some(Rat(dist * tms, 1000)) ELSE avg

\* lines 64-68
AverageAfterTick(avg, tms, dist) ==
    IF tms > AvgThresholdMs /\ dist >= 0 THEN Some(Rat(dist * 1000, tms)) ELSE avg

\* r clearing the smoothed speed as well
r_DecaysSpeed ==
    /\ movingTimeRef' = Accumulate(movingTimeRef, lastTickRef, now)
    /\ lastTickRef' = Some(now)
    /\ avgSpeedMs' = SetState(avgSpeedMs,
                     AverageAfterTick(avgSpeedMs, movingTimeRef', distanceRef))
    /\ speedMs' = SetState(speedMs, None)
    /\ history' = TraceTick(history)
    /\ UNCHANGED <<mounted, errorTimers, audioVars>>
    /\ last' = [op |-> "tick", out |-> "none", arg |-> None]
    /\ UNCHANGED <<isActive, error, distanceM, lastFix, watchIdRef,
                   prevRef, startedAtRef, distanceRef, effActive, now, watches,
                   lastCall, env, p1vars>>

r ==
    /\ movingTimeRef' = Accumulate(movingTimeRef, lastTickRef, now)
    /\ lastTickRef' = Some(now)
    /\ avgSpeedMs' = SetState(avgSpeedMs,
                     AverageAfterTick(avgSpeedMs, movingTimeRef', distanceRef))
    /\ history' = TraceTick(history)
    /\ UNCHANGED <<mounted, errorTimers, audioVars>>
    /\ last' = [op |-> "tick", out |-> "none", arg |-> None]
    /\ UNCHANGED <<isActive, error, distanceM, speedMs, lastFix, watchIdRef,
                   prevRef, startedAtRef, distanceRef, effActive, now, watches,
                   lastCall, env, p1vars>>

\* the frame requested at line 73 fires; r requests the next one at line 70
TickFirst ==
    /\ firstFrame
    /\ loops < MaxLoops
    /\ r
    /\ firstFrame' = FALSE
    /\ loops' = loops + 1

\* a frame requested at line 70 fires; r requests the next one at line 70
TickLoop ==
    /\ loops > 0
    /\ r
    /\ UNCHANGED <<firstFrame, loops>>

\* wall-clock time passes
Elapse(gaps, maxSteps) ==
    \E gap \in gaps :
        /\ now + gap <= maxSteps * gap
        /\ now' = now + gap
        /\ last' = [op |-> "advance", out |-> "none", arg |-> None]
        /\ UNCHANGED <<isActive, error, distanceM, speedMs, avgSpeedMs, lastFix,
                       watchIdRef, prevRef, startedAtRef, movingTimeRef, lastTickRef,
                       distanceRef, effActive, firstFrame, loops, watches, lastCall,
                       env, p1vars, history, mounted, errorTimers, audioVars>>

Advance(maxSteps) == Elapse(FrameGapsMs, maxSteps)

(***************************************************************************)
(* onSuccess (lines 110-153) and onError (lines 155-168)                   *)
(***************************************************************************)
onSuccess(w, pos) ==
    LET out == Outcome(pos, w.isActive, prevRef)
        gated == out \in {"inactive", "accuracy"}
        s == InstantSpeed(pos, prevRef)
    IN
    /\ lastFix' = LastKnownFix(pos, out, lastFix)                     \* line 111
    /\ error' = ErrorAfterFix(out, error)                             \* line 112
    /\ startedAtRef' = IF ~gated /\ Falsy(startedAtRef)               \* line 123
                       THEN Some(pos.timestamp) ELSE startedAtRef
    /\ distanceRef' = IF out = "segment"                              \* line 140
                      THEN distanceRef + SegmentDistance(pos, prevRef[1])
                      ELSE distanceRef
    /\ distanceM' = IF out = "segment" THEN distanceRef' ELSE distanceM  \* line 141
    /\ speedMs' = IF out \in {"first", "glitch", "segment"} /\ Smoothable(s)
                  THEN Ema(speedMs, s[1]) ELSE speedMs
    /\ prevRef' = IF out \in {"first", "glitch", "segment"}           \* line 152
                  THEN Some(FixOf(pos)) ELSE prevRef
    /\ history' = Trace(history, out, pos)
    /\ UNCHANGED <<mounted, errorTimers, audioVars>>
    /\ last' = [op |-> "fix", out |-> out, arg |-> Some(pos)]
    /\ UNCHANGED <<isActive, avgSpeedMs, watchIdRef, movingTimeRef, lastTickRef,
                   effActive, now, firstFrame, loops, watches, lastCall,
                   env, p1vars>>

DeliverFix(positions) ==
    \E w \in watches : \E pos \in positions : onSuccess(w, pos)

onError_Retries(code) ==
    /\ error' = Some(ErrorMessage(code))
    /\ watches' = watches \cup {[id |-> FreshWatchId(watches), isActive |-> TRUE]}
    /\ watchIdRef' = Some(FreshWatchId(watches))
    /\ last' = [op |-> "error", out |-> "none", arg |-> Some(code)]
    /\ UNCHANGED <<isActive, distanceM, speedMs, avgSpeedMs, lastFix,
                   prevRef, startedAtRef, movingTimeRef, lastTickRef, distanceRef,
                   effActive, now, firstFrame, loops, lastCall, env, p1vars,
                   history, mounted, errorTimers, audioVars>>

\* lines 155-168
onError(code) ==
    /\ error' = Some(ErrorMessage(code))                              \* line 167
    /\ last' = [op |-> "error", out |-> "none", arg |-> Some(code)]
    /\ UNCHANGED <<isActive, distanceM, speedMs, avgSpeedMs, lastFix, watchIdRef,
                   prevRef, startedAtRef, movingTimeRef, lastTickRef, distanceRef,
                   effActive, now, firstFrame, loops, watches, lastCall,
                   env, p1vars, history, mounted, errorTimers, audioVars>>

\* the permission effect's callbacks for the state "granted": the resolution
\* of navigator.permissions.query and result.onchange (lines 85-96; part_001
\* lines 112-123)
PermissionGranted ==
    /\ supported
    /\ error' = None
    /\ last' = [op |-> "permission", out |-> "granted", arg |-> None]
    /\ UNCHANGED <<isActive, distanceM, speedMs, avgSpeedMs, lastFix, watchIdRef,
                   prevRef, startedAtRef, movingTimeRef, lastTickRef, distanceRef,
                   effActive, now, firstFrame, loops, watches, lastCall, env,
                   p1vars, history, mounted, errorTimers, audioVars>>

\* part_001: a callback scheduled at line 107 or 134 runs
UnsupportedTimer ==
    /\ errorTimers > 0
    /\ errorTimers' = errorTimers - 1
    /\ error' = Some(UnsupportedMessage)
    /\ last' = [op |-> "timer", out |-> "none", arg |-> None]
    /\ UNCHANGED <<isActive, distanceM, speedMs, avgSpeedMs, lastFix, watchIdRef,
                   prevRef, startedAtRef, movingTimeRef, lastTickRef, distanceRef,
                   effActive, now, firstFrame, loops, watches, lastCall, env,
                   p1vars, history, mounted, audioVars>>

DeliverError(codes) ==
    /\ watches # {}
    /\ \E code \in codes : onError(code)

(***************************************************************************)
(* src/unnamed/part_001: the revision whose frame loop republishes the     *)
(* display values.  start, pause, the effects' run on isActive and onError *)
(* are as in useGeoTracker.tsx; reset, r and onSuccess differ.             *)
(***************************************************************************)
resetP1_KeepsAverage ==
    /\ isActive' = FALSE
    /\ displayDistanceM' = 0
    /\ distanceRef' = 0
    /\ displaySpeedKmh' = None
    /\ speedMsRef' = None
    /\ lastFix' = None
    /\ prevRef' = None
    /\ startedAtRef' = None
    /\ movingTimeRef' = 0
    /\ lastTickRef' = None
    /\ lastUpdateTimeRef' = 0
    /\ lastSpeedUpdateRef' = 0
    /\ last' = [op |-> "reset", out |-> "none", arg |-> None]
    /\ lastCall' = "reset"
    /\ history' = NoHistory
    /\ UNCHANGED <<mounted, errorTimers, audioVars>>
    /\ UNCHANGED <<error, distanceM, speedMs, avgSpeedMs, watchIdRef, effActive,
                   now, firstFrame, loops, watches, env, displayAvgSpeedKmh>>

\* part_001 lines 48-62
resetP1 ==
    /\ isActive' = SetState(isActive, FALSE)
    /\ displayDistanceM' = SetState(displayDistanceM, 0)
    /\ distanceRef' = 0
    /\ displaySpeedKmh' = SetState(displaySpeedKmh, None)
    /\ displayAvgSpeedKmh' = SetState(displayAvgSpeedKmh, None)
    /\ speedMsRef' = None
    /\ lastFix' = SetState(lastFix, None)
    /\ prevRef' = None
    /\ startedAtRef' = None
    /\ movingTimeRef' = 0
    /\ lastTickRef' = None
    /\ lastUpdateTimeRef' = 0
    /\ lastSpeedUpdateRef' = 0
    /\ last' = [op |-> "reset", out |-> "none", arg |-> None]
    /\ lastCall' = "reset"
    /\ history' = NoHistory
    /\ UNCHANGED <<mounted, errorTimers, audioVars>>
    /\ UNCHANGED <<error, distanceM, speedMs, avgSpeedMs, watchIdRef, effActive,
                   now, firstFrame, loops, watches, env>>

\* part_001 lines 70-75
AccumulateP1(moving, lastTick, t) ==
    IF lastTick # None /\ t - lastTick[1] > 0 THEN moving + (t - lastTick[1])
    ELSE moving

\* the speed published in m/s
DisplaySpeed_NoConversion(ref) == ref

\* part_001 lines 81-86
DisplaySpeed(ref) == IF ref # None THEN Some(RatMul(ref[1], KmhPerMs)) ELSE None

\* part_001 lines 89-93
AverageAfterTickP1(avg, tms, dist) ==
    IF tms > AvgThresholdMsP1 /\ dist >= 0
    THEN Some(RatMul(Rat(dist * 1000, tms), KmhPerMs)) ELSE avg

\* part_001 lines 68-96
rP1 ==
    /\ movingTimeRef' = AccumulateP1(movingTimeRef, lastTickRef, now)
    /\ lastTickRef' = Some(now)
    /\ displayDistanceM' = SetState(displayDistanceM, distanceRef)
    /\ displaySpeedKmh' = SetState(displaySpeedKmh, DisplaySpeed(speedMsRef))
    /\ displayAvgSpeedKmh' =
          SetState(displayAvgSpeedKmh,
                   AverageAfterTickP1(displayAvgSpeedKmh, movingTimeRef',
                                      distanceRef))
    /\ history' = TraceTick(history)
    /\ UNCHANGED <<mounted, errorTimers, audioVars>>
    /\ last' = [op |-> "tick", out |-> "none", arg |-> None]
    /\ UNCHANGED <<isActive, error, distanceM, speedMs, avgSpeedMs, lastFix,
                   watchIdRef, prevRef, startedAtRef, distanceRef, effActive, now,
                   watches, lastCall, env, speedMsRef, lastUpdateTimeRef,
                   lastSpeedUpdateRef>>

\* the frame requested at part_001 line 99 fires
TickFirstP1 ==
    /\ firstFrame
    /\ loops < MaxLoops
    /\ rP1
    /\ firstFrame' = FALSE
    /\ loops' = loops + 1

\* a frame requested at part_001 line 95 fires
TickLoopP1 ==
    /\ loops > 0
    /\ rP1
    /\ UNCHANGED <<firstFrame, loops>>

AdvanceP1(maxSteps) == Elapse(FrameGapsMsP1, maxSteps)

\* part_001 line 150: Date.now()
DateNow(t) == EpochMs + t

\* the speed is dropped by age alone, whatever the fix feeds
SpeedRefAfterFix_DecaysOnAge(ref, s, hasPrev, nowMs, lastSpeedUpdate) ==
    IF hasPrev /\ nowMs - lastSpeedUpdate > SpeedMaxAgeMs THEN None
    ELSE IF Smoothable(s) THEN Ema(ref, s[1])
    ELSE ref

\* part_001 lines 177-193: speedMsRef after an accepted fix feeding s
SpeedRefAfterFix(ref, s, hasPrev, nowMs, lastSpeedUpdate) ==
    IF Smoothable(s) THEN Ema(ref, s[1])
    ELSE IF s = None /\ hasPrev /\ nowMs - lastSpeedUpdate > SpeedMaxAgeMs THEN None
    ELSE ref

\* part_001 lines 138-197
onSuccessP1(w, pos) ==
    LET out == Outcome(pos, w.isActive, prevRef)
        gated == out \in {"inactive", "accuracy"}
        accepted == out \in {"first", "glitch", "segment"}
        s == InstantSpeed(pos, prevRef)
        nowMs == DateNow(now)
    IN
    /\ lastFix' = LastKnownFix(pos, out, lastFix)                     \* line 139
    /\ error' = ErrorAfterFix(out, error)                             \* line 140
    /\ startedAtRef' = IF ~gated /\ Falsy(startedAtRef)               \* line 153
                       THEN Some(pos.timestamp) ELSE startedAtRef
    /\ distanceRef' = IF out = "segment"                              \* line 172
                      THEN distanceRef + SegmentDistance(pos, prevRef[1])
                      ELSE distanceRef
    /\ speedMsRef' = IF accepted                                      \* 178-193
                     THEN SpeedRefAfterFix(speedMsRef, s, prevRef # None, nowMs,
                                           lastSpeedUpdateRef)
                     ELSE speedMsRef
    /\ lastSpeedUpdateRef' = IF accepted /\ Smoothable(s) THEN nowMs   \* line 186
                             ELSE lastSpeedUpdateRef
    /\ prevRef' = IF accepted THEN Some(FixOf(pos)) ELSE prevRef      \* line 195
    /\ lastUpdateTimeRef' = IF accepted THEN nowMs                    \* line 196
                            ELSE lastUpdateTimeRef
    /\ history' = Trace(history, out, pos)
    /\ UNCHANGED <<mounted, errorTimers, audioVars>>
    /\ last' = [op |-> "fix", out |-> out, arg |-> Some(pos)]
    /\ UNCHANGED <<isActive, distanceM, speedMs, avgSpeedMs, watchIdRef,
                   movingTimeRef, lastTickRef, effActive, now, firstFrame, loops,
                   watches, lastCall, env, displayDistanceM, displaySpeedKmh,
                   displayAvgSpeedKmh>>

DeliverFixP1(positions) ==
    \E w \in watches : \E pos \in positions : onSuccessP1(w, pos)

InitP1 == InitWith(DefaultOptsP1, "part_001")

\* the inputs of the part_001 behaviours: a first fix, a fix 300 ms later with
\* a native speed, a fix without one, and a permission error
PositionsP1 ==
    {Pos(0, 0, None, Some(60)), Pos(300, 100, Some(5), Some(60)),
     Pos(1600, 100, None, Some(60))}
ErrorCodesP1 == {1}

\* part_001: lifecycle, clock and errors, with a few fixes
NextP1 ==
    \/ start
    \/ pause
    \/ resetP1
    \/ Commit
    \/ TickFirstP1
    \/ TickLoopP1
    \/ AdvanceP1(MaxSteps)
    \/ DeliverFixP1(PositionsP1)
    \/ DeliverError(ErrorCodesP1)
    \/ PermissionGranted
    \/ UnsupportedTimer

SpecP1 == InitP1 /\ [][NextP1]_vars

\* lifecycle, clock and errors, with a few fixes
Next ==
    \/ start
    \/ pause
    \/ reset
    \/ Commit
    \/ TickFirst
    \/ TickLoop
    \/ Advance(MaxSteps)
    \/ DeliverFix(FewPositions)
    \/ DeliverError(ErrorCodes)
    \/ PermissionGranted

Spec == Init /\ [][Next]_vars

\* the accelerometer screen alone: the tracker stays as constructed
SpecAudio == Init /\ [][NextAudio]_vars

(***************************************************************************)
(* src/unnamed/part_000: the revision that keeps the distance in React     *)
(* state only and recomputes the average while handling a fix.  start and  *)
(* pause are as in useGeoTracker.tsx.  The watcher effect is keyed on      *)
(* distanceM as well (line 137), so each subscription's onSuccess reads    *)
(* the distanceM of the render that created it.                            *)
(***************************************************************************)
\* part_000 lines 38-48; there is no distanceRef, which stays 0 throughout
resetP0 == reset

\* part_000 lines 53-60: the frame callback accumulates the moving time only
rP0 ==
    /\ movingTimeRef' = Accumulate(movingTimeRef, lastTickRef, now)
    /\ lastTickRef' = Some(now)
    /\ history' = TraceTick(history)
    /\ UNCHANGED <<mounted, errorTimers, audioVars>>
    /\ last' = [op |-> "tick", out |-> "none", arg |-> None]
    /\ UNCHANGED <<isActive, error, distanceM, speedMs, avgSpeedMs, lastFix,
                   watchIdRef, prevRef, startedAtRef, distanceRef, effActive, now,
                   watches, lastCall, env, p1vars>>

\* the frame requested at part_000 line 62 fires
TickFirstP0 ==
    /\ firstFrame
    /\ loops < MaxLoops
    /\ rP0
    /\ firstFrame' = FALSE
    /\ loops' = loops + 1

\* a frame requested at part_000 line 59 fires
TickLoopP0 ==
    /\ loops > 0
    /\ rP0
    /\ UNCHANGED <<firstFrame, loops>>

\* the distanceM of the render the watcher effect last ran for
RenderedDistance(ws, idOpt, dist) ==
    IF idOpt # None /\ \E w \in ws : w.id = idOpt[1]
    THEN (CHOOSE w \in ws : w.id = idOpt[1]).distanceM
    ELSE dist

\* the effects after a render: the tick effect (part_000 lines 51-64) when
\* isActive changed, the watcher effect (lines 66-137) when isActive or
\* distanceM changed
CommitP0 ==
    /\ \/ isActive # effActive
       \/ RenderedDistance(watches, watchIdRef, distanceM) # distanceM
    /\ effActive' = isActive
    /\ IF isActive # effActive
       THEN IF isActive
            THEN /\ lastTickRef' = Some(now)                  \* line 61
                 /\ firstFrame' = TRUE                        \* line 62
            ELSE /\ lastTickRef' = lastTickRef
                 /\ firstFrame' = TickCleanup(firstFrame)     \* line 63
       ELSE UNCHANGED <<lastTickRef, firstFrame>>
    /\ LET cleared == IF watchIdRef = None THEN watches       \* lines 131-136
                      ELSE {w \in watches : w.id # watchIdRef[1]}
       IN  IF ~supported
           THEN /\ error' = Some(UnsupportedMessage)          \* lines 67-70
                /\ UNCHANGED <<watches, watchIdRef>>
           ELSE /\ error' = error
                /\ IF isActive                                \* lines 123-129
                   THEN LET id == FreshWatchId(cleared) IN
                        /\ watches' = cleared \cup
                              {[id |-> id, isActive |-> TRUE, distanceM |-> distanceM]}
                        /\ watchIdRef' = Some(id)
                   ELSE /\ watches' = cleared
                        /\ watchIdRef' = None
    /\ last' = [op |-> "commit", out |-> "none", arg |-> None]
    /\ UNCHANGED <<isActive, distanceM, speedMs, avgSpeedMs, lastFix,
                   prevRef, startedAtRef, movingTimeRef, distanceRef, now, loops,
                   lastCall, env, p1vars, history, mounted, errorTimers, audioVars>>

\* part_000 lines 111-115: the average from the distanceM the handler captured
AverageAfterFixP0(avg, tms, captured) ==
    IF tms > AvgThresholdMs /\ captured >= 0
    THEN Some(Rat(captured * 1000, tms)) ELSE avg

\* part_000 lines 72-118
onSuccessP0(w, pos) ==
    LET out == Outcome(pos, w.isActive, prevRef)
        gated == out \in {"inactive", "accuracy"}
        handled == out \in {"first", "glitch", "segment"}
        s == InstantSpeed(pos, prevRef)
    IN
    /\ lastFix' = Some(pos)                                           \* line 73
    /\ startedAtRef' = IF ~gated /\ Falsy(startedAtRef)               \* line 84
                       THEN Some(pos.timestamp) ELSE startedAtRef
    /\ distanceM' = IF out = "segment"                                \* line 101
                    THEN distanceM + SegmentDistance(pos, prevRef[1])
                    ELSE distanceM
    /\ speedMs' = IF handled /\ Smoothable(s)                         \* 106-108
                  THEN Ema(speedMs, s[1]) ELSE speedMs
    /\ avgSpeedMs' = IF handled                                       \* 111-115
                     THEN AverageAfterFixP0(avgSpeedMs, movingTimeRef, w.distanceM)
                     ELSE avgSpeedMs
    /\ prevRef' = IF handled THEN Some(FixOf(pos)) ELSE prevRef       \* line 117
    /\ history' = Trace(history, out, pos)
    /\ UNCHANGED <<mounted, errorTimers, audioVars>>
    /\ last' = [op |-> "fix", out |-> out, arg |-> Some(pos)]
    /\ UNCHANGED <<isActive, error, watchIdRef, movingTimeRef, lastTickRef,
                   distanceRef, effActive, now, firstFrame, loops, watches,
                   lastCall, env, p1vars>>

DeliverFixP0(positions) ==
    \E w \in watches : \E pos \in positions : onSuccessP0(w, pos)

\* the messages a GeolocationPositionError carries in part_000's behaviours
ErrorTextsP0 == {"User denied Geolocation"}

\* part_000 line 120: setError(e.message)
onErrorP0(message) ==
    /\ error' = Some(message)
    /\ last' = [op |-> "error", out |-> "none", arg |-> Some(message)]
    /\ UNCHANGED <<isActive, distanceM, speedMs, avgSpeedMs, lastFix, watchIdRef,
                   prevRef, startedAtRef, movingTimeRef, lastTickRef, distanceRef,
                   effActive, now, firstFrame, loops, watches, lastCall,
                   env, p1vars, history, mounted, errorTimers, audioVars>>

DeliverErrorP0(messages) ==
    /\ watches # {}
    /\ \E message \in messages : onErrorP0(message)

InitP0 == InitWith(DefaultOpts, "part_000")

\* part_000: lifecycle, clock and errors, with a few fixes
NextP0 ==
    \/ start
    \/ pause
    \/ resetP0
    \/ CommitP0
    \/ TickFirstP0
    \/ TickLoopP0
    \/ Advance(MaxSteps)
    \/ DeliverFixP0(FewPositions)
    \/ DeliverErrorP0(ErrorTextsP0)

SpecP0 == InitP0 /\ [][NextP0]_vars

\* either revision of the hook
InitBoth == Init \/ InitP1

NextBoth ==
    \/ (variant = "main" /\ Next)
    \/ (variant = "part_001" /\ NextP1)

SpecBoth == InitBoth /\ [][NextBoth]_vars

\* the doubles 0.2, 0.9, 5, 5.000000000000002 and 9
FloatSpeeds ==
    {Double(26843545, 80530637, 6), Double(60397977, 80530637, 7),
     Double(0, 5, 60), Double(20971520, 1, 11), Double(0, 9, 60)}

SmoothFactors == {<<1, 4>>, <<1, 1>>}

MaxFixes == 3

\* lines 110-153 for a fix that passes the gates: good accuracy, the position
\* of the fix before it (d = 0), minIntervalMs after it, and a native speed s;
\* the smoothing of line 147 evaluated in binary64
onSuccessDouble(w, t, s) ==
    LET pos == Pos(t, 0, Some(s), Some(0)) IN
    /\ w.isActive
    /\ lastFix' = LastKnownFix(pos, "segment", lastFix)               \* line 111
    /\ error' = ErrorAfterFix("segment", error)                       \* line 112
    /\ startedAtRef' = IF Falsy(startedAtRef) THEN Some(t)            \* line 123
                       ELSE startedAtRef
    /\ distanceRef' = distanceRef + haversine(0, 0)                   \* line 140
    /\ distanceM' = IF prevRef # None THEN distanceRef' ELSE distanceM
    /\ speedMs' = EmaFloat(speedMs, s)                                \* 146-148
    /\ prevRef' = Some(FixOf(pos))                                    \* line 152
    /\ last' = [op |-> "fix", out |-> IF prevRef = None THEN "first" ELSE "segment",
                arg |-> Some(pos)]
    /\ UNCHANGED <<isActive, avgSpeedMs, watchIdRef, movingTimeRef, lastTickRef,
                   effActive, now, firstFrame, loops, watches, lastCall,
                   env, p1vars, history, mounted, errorTimers, audioVars>>

DeliverDoubleFix(maxFixes) ==
    \E w \in watches : \E s \in FloatSpeeds :
        LET t == IF prevRef = None THEN 0 ELSE prevRef[1].t + opts.minIntervalMs
        IN  /\ t < maxFixes * opts.minIntervalMs
            /\ onSuccessDouble(w, t, s)

InitEma ==
    \E f \in SmoothFactors : InitWith([DefaultOpts EXCEPT !.smoothFactor = f], "main")

\* a session of accepted fixes whose native speeds are drawn from FloatSpeeds
NextEma ==
    \/ start
    \/ Commit
    \/ DeliverDoubleFix(MaxFixes)

SpecEma == InitEma /\ [][NextEma]_vars

\* fix processing over SpeedPositions
NextSpeed ==
    \/ start
    \/ pause
    \/ reset
    \/ Commit
    \/ DeliverFix(SpeedPositions)

SpecSpeed == Init /\ [][NextSpeed]_vars

\* fix processing over all of Positions, the fixes arriving within one frame time
NextFix ==
    \/ start
    \/ pause
    \/ reset
    \/ Commit
    \/ TickFirst
    \/ TickLoop
    \/ DeliverFix(Positions)

SpecFix == Init /\ [][NextFix]_vars

\* the fixes of the traced behaviours: a first fix, one too soon after it,
\* 100 m and 250 m away after 0.6 s, 100 m away after 1.6 s (150 m in 1 s from
\* the one at 250 m), and one of bad accuracy
TracedPositions ==
    {Pos(0, 0, None, Some(60)), Pos(300, 100, Some(5), Some(60)),
     Pos(600, 100, None, Some(60)), Pos(600, 250, None, Some(60)),
     Pos(1600, 100, None, Some(60)), Pos(1600, 250, None, Some(61))}

InitTraced == InitState(DefaultOpts, "main", TRUE)

\* lifecycle, clock and fixes, with the history kept
NextTraced ==
    \/ start
    \/ pause
    \/ reset
    \/ Commit
    \/ TickFirst
    \/ TickLoop
    \/ Advance(MaxSteps)
    \/ DeliverFix(TracedPositions)

SpecTraced == InitTraced /\ [][NextTraced]_vars

\* fixes at the same instant 100 m and 250 m apart, with a usable native
\* speed, with a negative one and without, and a fix 1.6 s later back at the
\* start
NoIntervalPositions ==
    {Pos(0, 0, None, Some(60)), Pos(0, 100, None, Some(60)),
     Pos(0, 250, Some(-1), Some(60)), Pos(0, 100, Some(5), Some(60)),
     Pos(1600, 0, None, Some(60))}

InitNoInterval ==
    \E f \in SmoothFactors :
        InitState([DefaultOpts EXCEPT !.minIntervalMs = 0, !.smoothFactor = f],
                  "main", TRUE)

\* fix processing with minIntervalMs = 0, up to MaxFixes accepted fixes in a
\* session
NextNoInterval ==
    \/ start
    \/ pause
    \/ reset
    \/ Commit
    \/ (Len(history.accepted) < MaxFixes /\ DeliverFix(NoIntervalPositions))

SpecNoInterval == InitNoInterval /\ [][NextNoInterval]_vars

(***************************************************************************)
(* The watcher effect under a change of options and at unmount              *)
(***************************************************************************)
ClearWatch_KeepsSubscription(ws, idOpt) == ws

\* lines 185-190: clearWatch(watchIdRef.current) when it is not null
ClearWatch(ws, idOpt) ==
    IF idOpt = None THEN ws ELSE {w \in ws : w.id # idOpt[1]}

\* the options a parent may pass: the defaults, or no minimum interval
OptionSets == {DefaultOpts, [DefaultOpts EXCEPT !.minIntervalMs = 0]}

\* a render with other options: the watcher effect (dependency list, line
\* 191) runs its cleanup and then its setup, which subscribes again when
\* active (lines 171-176); the handlers of the new subscription read the new
\* options.  When isActive changed in the same render the tick effect (lines
\* 54-75) runs as well.
OptionsChange ==
    \E o \in OptionSets :
        /\ o # opts
        /\ opts' = o
        /\ effActive' = isActive
        /\ IF isActive = effActive
           THEN UNCHANGED <<lastTickRef, firstFrame>>
           ELSE IF isActive
           THEN /\ lastTickRef' = Some(now)                   \* line 72
                /\ firstFrame' = TRUE                         \* line 73
           ELSE /\ lastTickRef' = lastTickRef
                /\ firstFrame' = TickCleanup(firstFrame)      \* line 74
        /\ LET cleared == ClearWatch(watches, watchIdRef) IN
           IF ~supported
           THEN /\ IF variant = "part_001"
                   THEN /\ errorTimers < MaxErrorTimers
                        /\ errorTimers' = errorTimers + 1     \* part_001 line 134
                        /\ error' = error
                   ELSE /\ error' = Some(UnsupportedMessage)  \* lines 105-108
                        /\ errorTimers' = errorTimers
                /\ UNCHANGED <<watches, watchIdRef>>
           ELSE /\ error' = error
                /\ errorTimers' = errorTimers
                /\ IF isActive
                   THEN LET id == FreshWatchId(cleared) IN
                        /\ watches' = cleared \cup {[id |-> id, isActive |-> TRUE]}
                        /\ watchIdRef' = Some(id)
                   ELSE /\ watches' = cleared
                        /\ watchIdRef' = None
        /\ last' = [op |-> "options", out |-> "none", arg |-> None]
        /\ UNCHANGED <<isActive, distanceM, speedMs, avgSpeedMs, lastFix, prevRef,
                       startedAtRef, movingTimeRef, distanceRef, now, loops,
                       lastCall, supported, variant, traced, p1vars, history,
                       mounted, audioVars>>

\* the component is mounted
Mounted == mounted

\* unmount: the cleanups of the tick effect (line 74) and of the watcher effect
\* (lines 185-190) run, and no effect is set up again; frames that r requested
\* for itself (line 70) stay pending
Unmount ==
    /\ Mounted
    /\ mounted' = FALSE
    /\ firstFrame' = TickCleanup(firstFrame)
    /\ watches' = IF supported THEN ClearWatch(watches, watchIdRef) ELSE watches
    /\ watchIdRef' = IF supported THEN None ELSE watchIdRef
    /\ last' = [op |-> "unmount", out |-> "none", arg |-> None]
    /\ UNCHANGED <<isActive, error, distanceM, speedMs, avgSpeedMs, lastFix,
                   prevRef, startedAtRef, movingTimeRef, lastTickRef, distanceRef,
                   effActive, now, loops, lastCall, env, p1vars, history,
                   errorTimers, audioVars>>

InitWatch == \E o \in OptionSets : InitWith(o, "main")

\* lifecycle, fixes and errors of a component whose options change and which
\* is unmounted in the end; after that the frames r requested for itself go on
\* firing and reset() still writes the refs
NextWatch ==
    \/ (Mounted /\ start)
    \/ (Mounted /\ pause)
    \/ reset
    \/ (Mounted /\ Commit)
    \/ (Mounted /\ OptionsChange)
    \/ Unmount
    \/ TickFirst
    \/ TickLoop
    \/ Advance(MaxSteps)
    \/ (Mounted /\ DeliverFix(FewPositions))
    \/ (Mounted /\ DeliverError(ErrorCodes))
    \/ (Mounted /\ PermissionGranted)

SpecWatch == InitWatch /\ [][NextWatch]_vars

(***************************************************************************)
(* Both revisions with fixes that carry no native speed, some at the time  *)
(* of the fix before them, over seconds of wall-clock time                 *)
(***************************************************************************)
\* a first fix with a native speed, a fix without one at the same time and
\* one without 1.6 s later
KeptPositions ==
    {Pos(0, 0, Some(5), Some(60)), Pos(0, 100, None, Some(60)),
     Pos(1600, 100, None, Some(60))}

OptionSetsP1 == {DefaultOptsP1, [DefaultOptsP1 EXCEPT !.minIntervalMs = 0]}

InitKept ==
    \/ InitState(DefaultOpts, "main", TRUE)
    \/ \E o \in OptionSetsP1 : InitState(o, "part_001", TRUE)

\* lifecycle, clock and up to MaxFixes accepted fixes in a session
NextKept ==
    \/ /\ variant = "main"
       /\ \/ start
          \/ pause
          \/ reset
          \/ Commit
          \/ TickFirst
          \/ TickLoop
          \/ Advance(MaxSteps)
          \/ (Len(history.accepted) < MaxFixes /\ DeliverFix(KeptPositions))
    \/ /\ variant = "part_001"
       /\ \/ start
          \/ pause
          \/ resetP1
          \/ Commit
          \/ TickFirstP1
          \/ TickLoopP1
          \/ Advance(MaxSteps)
          \/ (Len(history.accepted) < MaxFixes /\ DeliverFixP1(KeptPositions))
          \/ UnsupportedTimer

SpecKept == InitKept /\ [][NextKept]_vars

\* no requested frame is waiting: a frame requested at line 70 or 73 fires
\* within one display refresh, long before the clock's next step
FrameHandled == (firstFrame \/ loops > 0) => last.op = "tick"

\* as Next, the clock stepping only once the pending frame has been handled
NextLive ==
    \/ start
    \/ pause
    \/ reset
    \/ Commit
    \/ TickFirst
    \/ TickLoop
    \/ (FrameHandled /\ Advance(MaxSteps))
    \/ DeliverFix(FewPositions)
    \/ DeliverError(ErrorCodes)
    \/ PermissionGranted

\* the scheduling: React runs the effects after the render that follows a
\* change of isActive, the browser fires every frame that was requested, and
\* time passes
SpecLive ==
    /\ Init
    /\ [][NextLive]_vars
    /\ WF_vars(Commit)
    /\ WF_vars(TickFirst)
    /\ WF_vars(TickLoop)
    /\ SF_vars(FrameHandled /\ Advance(MaxSteps))

\* React has rendered and run the effects for the current value of isActive
Flushed == isActive = effActive

\* as Next, but no frame, fix or error is handled between a call of start /
\* pause / reset and the effects it triggers (React flushing them at once)
NextSync ==
    \/ start
    \/ pause
    \/ reset
    \/ Commit
    \/ Advance(MaxSteps)
    \/ (Flushed /\ TickFirst)
    \/ (Flushed /\ TickLoop)
    \/ (Flushed /\ DeliverFix(FewPositions))
    \/ (Flushed /\ DeliverError(ErrorCodes))
    \/ (Flushed /\ PermissionGranted)

SpecSync == Init /\ [][NextSync]_vars

(***************************************************************************)
(* Properties                                                              *)
(***************************************************************************)
\* the session is inactive and the effects have run for that (cleanup done)
Settled == ~isActive /\ ~effActive

\* a step that is a run of onSuccess; the fix it handled is lastFix'
FixStep == last'.op = "fix" /\ lastFix' # None

\* C1: activeElapsedSeconds (movingTimeRef) does not grow while the session is
\* paused: once the pause has taken effect, no step adds to movingTimeRef.
C1_PausedGapNotAdded ==
    [][(Settled /\ lastCall = "pause") => movingTimeRef' <= movingTimeRef]_vars

\* C2: the tick loop runs only while the session is active: once pause() or
\* reset() has taken effect, no animation frame is pending and no tick
\* callback executes.
C2_NoTickWhileInactive ==
    Settled => (~firstFrame /\ loops = 0 /\ last.op # "tick")

\* C3: reset() called in any reachable state yields the initial zero state.
C3_ResetYieldsZeroState ==
    last.op = "reset" =>
        /\ isActive = FALSE
        /\ distanceRef = 0
        /\ distanceM = 0
        /\ speedMs = None
        /\ avgSpeedMs = None
        /\ lastFix = None
        /\ prevRef = None
        /\ startedAtRef = None
        /\ movingTimeRef = 0
        /\ lastTickRef = None

\* reset() was called on an active session whose tick loop had run for a while
C3_Witness ==
    last.op = "reset" /\ effActive /\ loops > 0 /\ now > 0 /\ distanceRef = 0

\* C4: after reset() the session behaves like a freshly constructed one: in
\* particular, while it stays inactive after reset() (no start() since), as in
\* a fresh session before its first start(), averageSpeed stays unset and
\* activeElapsedSeconds stays 0.
C4_ResetLikeFresh ==
    lastCall \in {"none", "reset"} => (movingTimeRef = 0 /\ avgSpeedMs = None)

\* C5: a fix whose accuracy exceeds minAccuracyM is dropped: cumulative distance,
\* smoothed speed and lastAcceptedFix (prevRef) are unchanged.
C5_AccuracyGating ==
    [][(/\ FixStep
        /\ lastFix'[1].accuracy # None
        /\ lastFix'[1].accuracy[1] > minAccuracyM)
        => UNCHANGED <<distanceRef, distanceM, speedMs, prevRef, env, p1vars>>]_vars

\* a fix of accuracy 61 was dropped while a baseline and a distance existed
C5_Witness ==
    /\ last.op = "fix"
    /\ lastFix # None
    /\ lastFix[1].accuracy = Some(61)
    /\ prevRef # None
    /\ prevRef[1].t < lastFix[1].timestamp
    /\ distanceRef > 0

\* C6: a fix without accuracy is rejected: cumulative distance, smoothed speed
\* and lastAcceptedFix (prevRef) are unchanged.
C6_AbsentAccuracyRejected ==
    [][(FixStep /\ lastFix'[1].accuracy = None)
        => UNCHANGED <<distanceRef, distanceM, speedMs, prevRef>>]_vars

\* a fix without accuracy was delivered to a session that has a baseline
C6_Witness ==
    /\ last.op = "fix"
    /\ lastFix # None
    /\ lastFix[1].accuracy = None
    /\ prevRef # None
    /\ effActive

\* C7: a fix less than minIntervalMs after lastAcceptedFix is dropped without
\* updating lastAcceptedFix, distance or smoothed speed, and a fix that adds a
\* segment adds the distance to the baseline held before it, whatever fixes
\* were dropped in between.
C7_IntervalGating ==
    [][(FixStep /\ prevRef # None) =>
        /\ (lastFix'[1].timestamp - prevRef[1].t < minIntervalMs
              => UNCHANGED <<distanceRef, distanceM, speedMs, prevRef>>)
        /\ (distanceRef' # distanceRef
              => distanceRef' = distanceRef
                                + Abs(lastFix'[1].latitude - prevRef[1].lat))]_vars

\* the fix at t=300 was dropped against the baseline of t=0, which stays
C7_Witness ==
    /\ last.op = "fix"
    /\ lastFix # None
    /\ lastFix[1].timestamp = 300
    /\ lastFix[1].accuracy = Some(60)
    /\ prevRef # None
    /\ prevRef[1].t = 0
    /\ prevRef[1].lat # lastFix[1].latitude

\* the speed a fix feeds to the smoothing when it is accepted after prev
FedSpeed(pos, prev) ==
    IF pos.speed # None /\ pos.speed[1] >= 0
    THEN <<pos.speed[1], 1>>
    ELSE Rat(Abs(pos.latitude - prev.lat) * 1000, pos.timestamp - prev.t)

\* C8: for a fix that passes gating with d > 100 m and dt <= 1 s the distance is
\* not increased, lastAcceptedFix becomes the new fix and the instantaneous
\* speed is fed to the EMA; every other accepted non-first fix adds exactly d.
C8_GlitchRejection ==
    [][(/\ FixStep
        /\ prevRef # None
        /\ lastFix'[1].accuracy # None
        /\ lastFix'[1].accuracy[1] <= minAccuracyM
        /\ lastFix'[1].timestamp - prevRef[1].t >= minIntervalMs)
        => LET pos == lastFix'[1]
               prev == prevRef[1]
               d == Abs(pos.latitude - prev.lat)
               dtMs == pos.timestamp - prev.t
               s == FedSpeed(pos, prev)
           IN  /\ prevRef'[1].t = pos.timestamp
               /\ prevRef'[1].lat = pos.latitude
               /\ IF d > 100 /\ dtMs <= 1000
                  THEN /\ UNCHANGED <<distanceRef, distanceM>>
                       /\ speedMs' = IF speedMs = None THEN Some(s)
                                     ELSE Some(RatAdd(speedMs[1],
                                            RatMul(RatSub(s, speedMs[1]), <<1, 4>>)))
                  ELSE /\ distanceRef' = distanceRef + d
                       /\ distanceM' = distanceRef']_vars

\* a 250 m jump within 0.6 s was accepted as baseline without adding distance
C8_Witness ==
    /\ last.op = "fix"
    /\ lastFix # None
    /\ lastFix[1].timestamp = 600
    /\ lastFix[1].latitude = 250
    /\ prevRef = Some([t |-> 600, lat |-> 250, acc |-> 60])
    /\ distanceRef = 0
    /\ speedMs = Some(Rat(250000, 600))

\* C9: cumulative distance (the ref and the published value) never decreases
\* under any fix, tick, start() or pause(); only reset() lowers it, and a fix
\* that leaves lastAcceptedFix unchanged leaves the distance unchanged.
C9_DistanceMonotonic ==
    [][/\ last'.op # "reset" => (distanceRef' >= distanceRef /\ distanceM' >= distanceM)
       /\ (FixStep /\ prevRef' = prevRef) => UNCHANGED <<distanceRef, distanceM>>]_vars

\* two segments were added, 100 m out and 100 m back
C9_Witness ==
    /\ last.op = "fix"
    /\ distanceRef = 200
    /\ distanceM = distanceRef
    /\ prevRef # None
    /\ prevRef[1].lat = 0

\* C10: lastAcceptedFix (prevRef), when present, holds the fix accepted last, and
\* its timestamp never decreases between resets, in whatever order the fix
\* timestamps are delivered.
C10_BaselineTimestampMonotonic ==
    [][/\ (prevRef # None /\ prevRef' # None) => prevRef'[1].t >= prevRef[1].t
       /\ (FixStep /\ prevRef' # prevRef)
            => (prevRef'[1].t = lastFix'[1].timestamp
                /\ prevRef'[1].lat = lastFix'[1].latitude)]_vars

\* a fix older than the baseline was delivered and the baseline stayed
C10_Witness ==
    /\ last.op = "fix"
    /\ lastFix # None
    /\ prevRef # None
    /\ prevRef[1].t = 1600
    /\ lastFix[1].timestamp = 0
    /\ lastFix[1].accuracy = Some(60)

\* C12: a frame tick at which the moving time is at or below the warm-up
\* threshold leaves averageSpeed unset; a tick above it sets averageSpeed to
\* cumulative distance / moving time, with the values current at that tick.
C12_AverageOnTick ==
    [][last'.op = "tick"
        => IF movingTimeRef' > AvgThresholdMs
           THEN avgSpeedMs' = Some(Rat(distanceRef' * 1000, movingTimeRef'))
           ELSE avgSpeedMs' = None]_vars

\* a tick 3 s into a session that has covered 100 m published 100/3 m/s
C12_Witness ==
    /\ last.op = "tick"
    /\ movingTimeRef = 3000
    /\ distanceRef = 100
    /\ avgSpeedMs = Some(<<100, 3>>)

\* C11: in every reachable state of either revision the published average
\* speed is unset or non-negative, and it is set only when the moving time
\* exceeds the warm-up threshold: 2 s in useGeoTracker.tsx, 0.5 s in part_001.
C11_AverageUnsetOrWarm ==
    /\ (variant = "main" /\ avgSpeedMs # None)
         => (avgSpeedMs[1][1] >= 0 /\ movingTimeRef > AvgThresholdMs)
    /\ (variant = "part_001" /\ displayAvgSpeedKmh # None)
         => (displayAvgSpeedKmh[1][1] >= 0 /\ movingTimeRef > AvgThresholdMsP1)

\* part_001 published a positive average 0.8 s into a session, which is past
\* its threshold and short of the other revision's
C11_Witness ==
    /\ variant = "part_001"
    /\ movingTimeRef = 800
    /\ displayAvgSpeedKmh # None
    /\ displayAvgSpeedKmh[1][1] > 0

\* C13: a fix delivered while the session is not active changes none of
\* cumulative distance, smoothed speed, average speed, lastAcceptedFix, the
\* session start timestamp and the moving time; only lastFix may change.
C13_InactiveFixIgnored ==
    [][(FixStep /\ ~isActive)
        => UNCHANGED <<distanceRef, distanceM, speedMs, avgSpeedMs, prevRef,
                       startedAtRef, movingTimeRef>>]_vars

\* the fix handed to the handler that ran last
Delivered == last.arg[1]

\* a fix was accepted as the first of its session
FirstAccepted == FixStep /\ prevRef = None /\ prevRef' # None

\* a fix was accepted after an earlier one
LaterAccepted == FixStep /\ prevRef # None /\ prevRef' # prevRef

\* C14: the first accepted fix of a session sets the session start timestamp
\* and lastAcceptedFix to that fix, seeds the smoothed speed with the native
\* speed when that is a number >= 0 and leaves it unset otherwise, and adds
\* nothing to the cumulative distance.
C14_FirstAcceptedFix ==
    [][FirstAccepted
        => LET pos == Delivered' IN
           /\ startedAtRef' = Some(pos.timestamp)
           /\ prevRef'[1].t = pos.timestamp
           /\ prevRef'[1].lat = pos.latitude
           /\ speedMs' = IF pos.speed # None /\ pos.speed[1] >= 0
                         THEN Some(<<pos.speed[1], 1>>) ELSE None
           /\ UNCHANGED <<distanceRef, distanceM>>]_vars

\* a first fix at 0.6 s with native speed -1 became the baseline and left the
\* smoothed speed unset
C14_Witness ==
    /\ last.op = "fix"
    /\ last.out = "first"
    /\ Delivered.speed = Some(-1)
    /\ startedAtRef = Some(600)
    /\ prevRef = Some([t |-> 600, lat |-> 10, acc |-> 60])
    /\ speedMs = None
    /\ distanceRef = 0

\* C15: the instantaneous speed fed to the smoothing by an accepted fix after
\* the first is the native speed when that is present and >= 0, and the
\* fallback d / dt otherwise (absent or negative): 10 m over 2 s without a
\* usable native speed feeds 5 m/s.
C15_NativeOrFallbackSpeed ==
    [][LaterAccepted
        => LET s == FedSpeed(Delivered', prevRef[1]) IN
           speedMs' = IF speedMs = None THEN Some(s)
                      ELSE Some(RatAdd(speedMs[1],
                             RatMul(RatSub(s, speedMs[1]), opts.smoothFactor)))]_vars

\* after a first fix without usable speed, a fix 10 m on and 2 s later with
\* native speed -1 set the smoothed speed to 5 m/s
C15_Witness ==
    /\ last.op = "fix"
    /\ last.out = "segment"
    /\ Delivered = Pos(2000, 10, Some(-1), Some(60))
    /\ distanceRef = 10
    /\ speedMs = Some(<<5, 1>>)

\* an accepted fix met a smoothed speed that was already set
SmoothingStep == last'.op = "fix" /\ speedMs # None /\ speedMs' # None

\* the distance of the smoothed speed from the speed s just fed, times the
\* smoothing factor
ScaledDistance(x, s) ==
    DoubleScale([neg |-> FALSE, mag |-> Distance(x, s)], opts.smoothFactor).mag

\* C16 as stated: an accepted fix with native speed v sets the smoothed speed
\* to v when it was unset; otherwise |smoothedSpeed - v| does not increase,
\* and it strictly decreases when it was non-zero and smoothFactor < 1.
C16_EmaStrictConvergence ==
    [][/\ (last'.op = "fix" /\ speedMs = None) => speedMs' = Delivered'.speed
       /\ SmoothingStep
            => LET v == Delivered'.speed[1]
                   before == Distance(speedMs[1], v)
                   after == Distance(speedMs'[1], v)
               IN  /\ ~BitsLess(before, after)
                   /\ (before # BitsZero /\ opts.smoothFactor # <<1, 1>>)
                        => BitsLess(after, before)]_vars

\* C16, amended: an accepted fix with native speed v sets the smoothed speed
\* to v when it was unset; otherwise |smoothedSpeed - v| does not increase,
\* and it strictly decreases when smoothFactor < 1 and the distance times
\* smoothFactor was more than one unit in the last place of the larger of the
\* smoothed speed and v (the sum of line 147 is rounded at that magnitude).
C16_EmaConvergence ==
    [][/\ (last'.op = "fix" /\ speedMs = None) => speedMs' = Delivered'.speed
       /\ SmoothingStep
            => LET v == Delivered'.speed[1]
                   before == Distance(speedMs[1], v)
                   after == Distance(speedMs'[1], v)
                   larger == IF BitsLess(v.mag, speedMs[1].mag)
                             THEN speedMs[1] ELSE v
               IN  /\ ~BitsLess(before, after)
                   /\ (/\ opts.smoothFactor # <<1, 1>>
                       /\ BitsLess(Ulps(larger, 0),
                                   ScaledDistance(speedMs[1], v)))
                        => BitsLess(after, before)]_vars

\* at smoothFactor 0.25 a smoothed speed of 9 was fed 5 and became 8
C16_Witness ==
    /\ opts.smoothFactor = <<1, 4>>
    /\ last.op = "fix"
    /\ last.out = "segment"
    /\ Delivered.speed = Some(Double(0, 5, 60))
    /\ speedMs = Some(Double(0, 1, 63))

\* C17 as stated: with smoothFactor = 1 the smoothed speed after an accepted
\* fix that yields s is exactly s, whatever it was before.
C17_FactorOneExact ==
    [][(last'.op = "fix" /\ opts.smoothFactor = <<1, 1>>)
        => speedMs' = Delivered'.speed]_vars

\* C17, amended: with smoothFactor = 1 the smoothed speed after an accepted
\* fix that yields s is exactly s when it was unset before, and otherwise
\* within one unit in the last place of the larger of s and the previous
\* value of s.
C17_FactorOneWithinUlp ==
    [][(last'.op = "fix" /\ opts.smoothFactor = <<1, 1>>)
        => IF speedMs = None THEN speedMs' = Delivered'.speed
           ELSE LET v == Delivered'.speed[1]
                    larger == IF BitsLess(v.mag, speedMs[1].mag)
                              THEN speedMs[1] ELSE v
                IN  ~BitsLess(Ulps(larger, 0), Distance(speedMs'[1], v))]_vars

\* at smoothFactor 1 a smoothed speed of 0.2 was fed 0.9 and became
\* 0.8999999999999999
C17_Witness ==
    /\ opts.smoothFactor = <<1, 1>>
    /\ last.op = "fix"
    /\ last.out = "segment"
    /\ Delivered.speed = Some(Double(60397977, 80530637, 7))
    /\ speedMs = Some(Double(15099494, 53687091, 9))

\* C18: the published last-known fix is set to every raw fix the sensor
\* delivers, whether the fix is then accepted, rejected by the accuracy gate
\* or rejected by the interval gate.
C18_LastFixIsEveryRawFix ==
    [][last'.op = "fix" => lastFix' = last'.arg]_vars

\* a fix of accuracy 61 was published as lastFix and the baseline stayed
C18_Witness ==
    /\ last.op = "fix"
    /\ lastFix = Some(Pos(1600, 250, None, Some(61)))
    /\ prevRef = Some([t |-> 0, lat |-> 0, acc |-> 60])

\* C19: no fix sets the published error, rejected or not; the error becomes
\* non-null only in the sensor error callback, or by the check for a browser
\* without geolocation.
C19_OnlySensorErrors ==
    [][/\ last'.op = "fix" => error' = None
       /\ (error' # None /\ error' # error)
            => \/ last'.op = "error"
               \/ (~supported /\ error' = Some(UnsupportedMessage))]_vars

\* a fix was rejected by the interval gate and no error is published
C19_Witness ==
    /\ last.op = "fix"
    /\ last.arg = Some(Pos(300, 100, Some(5), Some(60)))
    /\ prevRef = Some([t |-> 0, lat |-> 0, acc |-> 60])
    /\ error = None

\* C20: a sensor error publishes its message and leaves the active flag, the
\* cumulative distance, the smoothed and the average speed, lastAcceptedFix
\* and the moving time unchanged; it creates no subscription.
C20_ErrorOnlyReported ==
    [][last'.op = "error"
        => /\ error' # None
           /\ error' = Some(ErrorMessage(last'.arg[1]))
           /\ UNCHANGED <<isActive, distanceRef, distanceM, speedMs, avgSpeedMs,
                          prevRef, movingTimeRef, watches, watchIdRef>>]_vars

\* a timeout was reported to an active session that has covered 100 m; its
\* subscription is the one it had
C20_Witness ==
    /\ last.op = "error"
    /\ last.arg = Some(3)
    /\ error = Some(ErrorMessage(3))
    /\ isActive
    /\ distanceRef = 100
    /\ watches = {[id |-> 1, isActive |-> TRUE]}

\* C26: a frame tick of either revision leaves the cumulative distance, the
\* smoothed speed, the last accepted fix and the session start timestamp as
\* they were; it moves the moving time forward (never back), sets the previous
\* tick reference to the clock, and republishes the average speed and, in
\* part_001, the display distance and the display speed.
C26_TickKeepsSession ==
    [][last'.op = "tick"
        => /\ distanceRef' = distanceRef
           /\ distanceM' = distanceM
           /\ speedMs' = speedMs
           /\ speedMsRef' = speedMsRef
           /\ prevRef' = prevRef
           /\ startedAtRef' = startedAtRef
           /\ lastFix' = lastFix
           /\ isActive' = isActive
           /\ movingTimeRef' >= movingTimeRef
           /\ lastTickRef' = Some(now)]_vars

\* a tick ran in a part_001 session that had a baseline, a start timestamp, a
\* covered distance and a smoothed speed, and republished the distance
C26_Witness ==
    /\ last.op = "tick"
    /\ variant = "part_001"
    /\ prevRef # None
    /\ startedAtRef # None
    /\ distanceRef = 100
    /\ speedMsRef # None
    /\ displayDistanceM = 100
    /\ movingTimeRef > 0

\* C28: in part_001 every frame tick publishes the cumulative distance as the
\* display distance and the smoothed speed times 3.6 as the display speed
\* (unset when the smoothed speed is unset), and a fix handler leaves the
\* display distance, display speed and display average as they were.
C28_DisplayFollowsOnTick ==
    [][/\ last'.op = "tick"
          => /\ displayDistanceM' = distanceRef'
             /\ displaySpeedKmh' =
                   IF speedMsRef' = None THEN None
                   ELSE Some(Rat(speedMsRef'[1][1] * 36, speedMsRef'[1][2] * 10))
       /\ last'.op = "fix"
          => UNCHANGED <<displayDistanceM, displaySpeedKmh,
                         displayAvgSpeedKmh>>]_vars

\* a tick published 100 m and a smoothed speed in km/h
C28_Witness ==
    /\ last.op = "tick"
    /\ variant = "part_001"
    /\ distanceRef = 100
    /\ displayDistanceM = 100
    /\ speedMsRef # None
    /\ speedMsRef[1][1] > 0
    /\ displaySpeedKmh # None

\* C24: in part_000 an accepted fix handled past the warm-up sets the average
\* speed to cumulative distance / moving time, the cumulative distance being
\* the total that includes the segment this fix added.
C24_AverageIncludesOwnSegment ==
    [][(/\ variant = "part_000"
        /\ last'.op = "fix"
        /\ last'.out \in {"first", "glitch", "segment"}
        /\ movingTimeRef' > AvgThresholdMs)
        => avgSpeedMs' = Some(Rat(distanceM' * 1000, movingTimeRef'))]_vars

\* C29: the session start timestamp is set by the first accepted fix after a
\* reset, to that fix's timestamp whatever its value (0 included), and once
\* set no fix, tick, pause() or start() changes it; only reset() clears it.
C29_StartTimestampSetOnce ==
    [][/\ FirstAccepted => startedAtRef' = Some(Delivered'.timestamp)
       /\ (startedAtRef # None /\ last'.op # "reset")
            => startedAtRef' = startedAtRef]_vars

\* a <= b for rationals with positive denominators
RatLeq(a, b) == a[1] * b[2] <= b[1] * a[2]

\* no fix has been accepted since the last tick
Stalled == history.ticked = Some(Len(history.accepted))

\* C30: while the session is active and the average speed is published (past
\* the warm-up), a tick before which no fix was accepted since the tick
\* before it publishes an average no greater than the one before.
C30_StalledAverageNeverRises ==
    [][(/\ last'.op = "tick"
        /\ isActive
        /\ avgSpeedMs # None
        /\ Stalled)
        => /\ avgSpeedMs' # None
           /\ RatLeq(avgSpeedMs'[1], avgSpeedMs[1])]_vars

\* with 100 m covered and no fix since 3 s, the tick at 4.5 s lowered the
\* average from 100/3 to 200/9 m/s
C30_Witness ==
    /\ traced
    /\ last.op = "tick"
    /\ isActive
    /\ Stalled
    /\ Len(history.accepted) = 2
    /\ distanceRef = 100
    /\ movingTimeRef = 4500
    /\ avgSpeedMs = Some(<<200, 9>>)

\* the sum over the fixes of a history after the first of the distance to the
\* fix before, leaving out the segments longer than 100 m covered in 1 s or less
RECURSIVE SumOfSegments(_)
SumOfSegments(fixes) ==
    IF Len(fixes) < 2 THEN 0
    ELSE LET n == Len(fixes)
             d == Abs(fixes[n].lat - fixes[n - 1].lat)
             dtMs == fixes[n].t - fixes[n - 1].t
         IN  SumOfSegments(SubSeq(fixes, 1, n - 1))
             + (IF d > 100 /\ dtMs <= 1000 THEN 0 ELSE d)

\* C25: the cumulative distance equals the sum, over the fixes accepted since
\* the last reset after the first, of the distance between the fix and the
\* fix accepted immediately before it, omitting exactly the segments with
\* d > 100 m and dt <= 1 s.
C25_DistanceIsSumOfSegments ==
    traced => /\ distanceRef = SumOfSegments(history.accepted)
              /\ distanceM = distanceRef

\* three fixes were accepted, 250 m in 0.6 s and then 150 m back in exactly
\* 1 s: both segments are left out
C25_Witness ==
    /\ traced
    /\ Len(history.accepted) = 3
    /\ history.accepted[2] = [t |-> 600, lat |-> 250, acc |-> 60]
    /\ history.accepted[3] = [t |-> 1600, lat |-> 100, acc |-> 60]
    /\ distanceRef = 0

\* C21: fixes are applied in the order they are delivered, so the baseline
\* is always the fix accepted last, and every tick past the warm-up computes
\* the average speed from a cumulative distance that includes the segment of
\* every fix whose handler ran before that tick.
C21_TickSeesEveryEarlierFix ==
    [][traced =>
        /\ prevRef' = IF history'.accepted = <<>> THEN None
                      ELSE Some(history'.accepted[Len(history'.accepted)])
        /\ (last'.op = "tick" /\ movingTimeRef' > AvgThresholdMs)
             => avgSpeedMs' = Some(Rat(SumOfSegments(history'.accepted) * 1000,
                                       movingTimeRef'))]_vars

\* a tick at 3 s that followed three accepted fixes published the 100 m of
\* their segments over 3 s
C21_Witness ==
    /\ traced
    /\ last.op = "tick"
    /\ Len(history.accepted) = 3
    /\ history.ticked = Some(3)
    /\ movingTimeRef = 3000
    /\ avgSpeedMs = Some(<<100, 3>>)

\* C27: pause() changes only the active flag, and the session is the same
\* after a following start() as before the pause: neither call, nor any step
\* taken while the session is paused, changes the cumulative distance, the
\* smoothed speed, the average speed, the last accepted fix, the session start
\* timestamp or the moving time.
C27_PauseKeepsSession ==
    [][(\/ last'.op \in {"pause", "start"}
        \/ (Settled /\ lastCall = "pause" /\ last'.op # "reset"))
        => UNCHANGED <<distanceRef, distanceM, speedMs, avgSpeedMs, prevRef,
                       startedAtRef, movingTimeRef>>]_vars

\* a step takes one of the session fields back to its initial value
ClearsSome ==
    \/ (distanceRef # 0 /\ distanceRef' = 0)
    \/ (distanceM # 0 /\ distanceM' = 0)
    \/ (speedMs # None /\ speedMs' = None)
    \/ (avgSpeedMs # None /\ avgSpeedMs' = None)
    \/ (prevRef # None /\ prevRef' = None)
    \/ (startedAtRef # None /\ startedAtRef' = None)
    \/ (movingTimeRef # 0 /\ movingTimeRef' = 0)
    \/ (lastTickRef # None /\ lastTickRef' = None)

\* C22: reset() is one step for every other handler and for the rendered
\* values: a step that is a reset, or that takes any session field (distance,
\* speed, average, last accepted fix, start timestamp, moving time, tick
\* reference) back to its initial value, is a reset that leaves all of them
\* at their initial values together; no state has some reset and others not.
C22_ResetIsOneStep ==
    [][(ClearsSome \/ last'.op = "reset")
        => /\ last'.op = "reset"
           /\ ~isActive'
           /\ distanceRef' = 0
           /\ distanceM' = 0
           /\ speedMs' = None
           /\ avgSpeedMs' = None
           /\ lastFix' = None
           /\ prevRef' = None
           /\ startedAtRef' = None
           /\ movingTimeRef' = 0
           /\ lastTickRef' = None]_vars

\* reset() was called 4.5 s in on an active session with a live subscription
\* and a running frame loop, before the effects ran for it
C22_Witness ==
    /\ last.op = "reset"
    /\ effActive
    /\ watches # {}
    /\ loops > 0
    /\ now = 4500
    /\ prevRef = None
    /\ lastTickRef = None
    /\ movingTimeRef = 0

\* C23: a session that is started and stays active, with frames firing as
\* time advances, eventually has the average speed defined, and while no
\* distance has been covered that average is 0.  (Started by 1.5 s on the
\* model's clock, so that more than the warm-up lies ahead of it.)
C23_AverageEventuallyDefined ==
    (isActive /\ effActive /\ now <= 1500)
        ~> (\/ ~isActive
            \/ (/\ avgSpeedMs # None
                /\ distanceRef = 0 => avgSpeedMs = Some(<<0, 1>>)))

\* a tick published the average 0 in an active session that never accepted
\* a fix
C23_Witness ==
    /\ last.op = "tick"
    /\ isActive
    /\ effActive
    /\ prevRef = None
    /\ lastFix = None
    /\ movingTimeRef = 3000
    /\ avgSpeedMs = Some(<<0, 1>>)

\* the frame loops that are live: the loops re-requesting themselves at line
\* 70, and the frame requested at line 73 that has yet to fire
LiveLoops == loops + (IF firstFrame THEN 1 ELSE 0)

\* C31: at any time at most one animation-frame tick loop is live, for every
\* sequence of start(), pause() and reset() calls interleaved with frames.
C31_AtMostOneTickLoop == LiveLoops <= 1

\* C32: at most one sensor subscription is live at any time, and it is the
\* one watchIdRef names, so the next cleanup clears it; none is live once the
\* session is inactive and the effects have run for that, and none after
\* unmount.
C32_AtMostOneSubscription ==
    /\ Cardinality(watches) <= 1
    /\ \A w \in watches : watchIdRef = Some(w.id)
    /\ Settled => watches = {}
    /\ ~mounted => watches = {}

\* a change of options re-subscribed an active session: one subscription is
\* live, and it is not the first one
C32_Witness ==
    /\ last.op = "options"
    /\ isActive
    /\ opts.minIntervalMs = 0
    /\ Cardinality(watches) = 1
    /\ watchIdRef # None
    /\ prevRef # None

\* C33: a fix handled after pause() or reset() was called and before the
\* effects have torn the subscription down changes none of the cumulative
\* distance, the smoothed speed, the last accepted fix and the session start
\* timestamp; so after reset() these keep their zero values until start().
C33_FixBeforeTeardownIgnored ==
    [][/\ (last'.op = "fix" /\ ~isActive /\ effActive)
            => UNCHANGED <<distanceRef, distanceM, speedMs, prevRef, startedAtRef>>
       /\ lastCall' = "reset"
            => /\ distanceRef' = 0
               /\ speedMs' = None
               /\ prevRef' = None
               /\ startedAtRef' = None]_vars

\* C34: pause() and start() leave the last accepted fix in place, and so does
\* every step of the paused session short of reset(), so the first fix
\* accepted after a resume adds the distance to the fix accepted before the
\* pause; the paused time is not added to the moving time.
C34_PausedDistanceCountedTimeNot ==
    [][/\ (\/ last'.op \in {"pause", "start"}
           \/ (Settled /\ lastCall = "pause" /\ last'.op # "reset"))
            => prevRef' = prevRef
       /\ (last'.op = "fix" /\ last'.out = "segment")
            => distanceRef' = distanceRef
                              + Abs(Delivered'.latitude - prevRef[1].lat)
       /\ (Settled /\ lastCall = "pause" /\ last'.op # "reset")
            => movingTimeRef' = movingTimeRef]_vars

\* C35: the smoothed speed, when set, is finite and >= 0, for smoothFactor
\* 0.25 and 1; a fix accepted with dt = 0 (minIntervalMs = 0) and without a
\* native speed >= 0 divides by nothing: it leaves the smoothed speed as it
\* was, and the last accepted fix becomes that fix.
C35_SpeedFiniteNoDivisionByZero ==
    [][/\ speedMs' # None => (speedMs'[1][2] > 0 /\ speedMs'[1][1] >= 0)
       /\ (/\ last'.op = "fix"
           /\ last'.out \in {"glitch", "segment"}
           /\ Delivered'.timestamp = prevRef[1].t
           /\ (Delivered'.speed = None \/ Delivered'.speed[1] < 0))
            => /\ speedMs' = speedMs
               /\ prevRef' = Some([t |-> Delivered'.timestamp,
                                   lat |-> Delivered'.latitude,
                                   acc |-> Delivered'.accuracy[1]])]_vars

\* with a smoothed speed of 5 m/s, a fix at the instant of the baseline,
\* 150 m from it and without usable speed, became the baseline and left the
\* speed at 5 m/s
C35_Witness ==
    /\ opts.minIntervalMs = 0
    /\ last.op = "fix"
    /\ last.out = "glitch"
    /\ Delivered = Pos(0, 250, Some(-1), Some(60))
    /\ prevRef = Some([t |-> 0, lat |-> 250, acc |-> 60])
    /\ speedMs = Some(<<5, 1>>)

\* C36: in both revisions every fix the sensor delivers leaves the published
\* error at none, a fix rejected by the accuracy or the interval gate
\* included, and where geolocation is supported only a sensor error sets it;
\* so a non-null error there means that no fix was delivered since the last
\* sensor error.
C36_EveryFixClearsError ==
    [][/\ last'.op = "fix" => error' = None
       /\ (supported /\ last'.op # "error") => (error' = None \/ error' = error)
       /\ last'.op = "error" => error' # None]_vars

\* part_001: a fix dropped by the interval gate left no error published
C36_Witness ==
    /\ variant = "part_001"
    /\ last.op = "fix"
    /\ last.out = "interval"
    /\ error = None
    /\ supported

\* C37: once the audio context has started, isPlaying is true exactly when
\* audioEnabled is true after any sequence of audio toggles (no instrument was
\* switched while playing), so that a toggle made while sound is enabled
\* disables it.
C37_PlayingIffEnabled ==
    (audioContextStarted /\ ~switched) => (isPlaying <=> audioEnabled)

\* C38: a smoothed speed that is set stays set until reset(): no fix and no
\* tick unsets it; in part_001, whenever minIntervalMs > 0, no accepted fix that
\* has a fix before it is left without a speed (the branch of line 187 is not
\* taken), so neither the speed reference nor the displayed speed is unset.
C38_SpeedStaysSet ==
    [][/\ (variant = "main" /\ speedMs # None /\ last'.op # "reset")
            => speedMs' # None
       /\ (variant = "part_001" /\ opts.minIntervalMs > 0)
            => /\ (last'.op = "fix" /\ last'.out \in {"glitch", "segment"})
                    => InstantSpeed(last'.arg[1], prevRef) # None
               /\ (speedMsRef # None /\ last'.op # "reset")
                    => speedMsRef' # None
               /\ (displaySpeedKmh # None /\ last'.op # "reset")
                    => displaySpeedKmh' # None]_vars

\* part_001 with minIntervalMs = 100: a fix without a native speed was accepted
\* as the second of the session 4.5 s in, after a fix with a native speed and a
\* tick that displayed the speed, and the speed is still set
C38_Witness ==
    /\ variant = "part_001"
    /\ opts.minIntervalMs > 0
    /\ last.op = "fix"
    /\ last.out = "segment"
    /\ last.arg[1].speed = None
    /\ Len(history.accepted) = 2
    /\ history.accepted[1].lat = 0
    /\ now = 4500
    /\ speedMsRef # None
    /\ displaySpeedKmh # None

====
